---- MODULE Spec2Model ----
(***************************************************************************)
(* Workspace Extension Manager: project-type detection, the per-workspace  *)
(* session state, and the profile applier (install / disable / settings).  *)
(*                                                                         *)
(* Every asynchronous function of the extension is a task.  An action is   *)
(* one turn of the JavaScript event loop: a host event (a command made by  *)
(* the user, a timer, the completion of an awaited host call, a network    *)
(* callback) followed by the code that runs synchronously up to the next   *)
(* await on the host.                                                      *)
(***************************************************************************)
EXTENDS Integers, Sequences, FiniteSets, TLC

VARIABLES
    extensionsAll,    \* vscode.extensions.all: sequence of installed extensions
    workspaceState,   \* extensionContext.workspaceState (appliedProfile, hasPrompted)
    configuration,    \* configuration section 'workspace-extension-manager'
    workspaceFolders, \* vscode.workspace.workspaceFolders, each the set of its files
    profileFiles,     \* profiles/<type>.json: project type -> optional ProfileConfig
    tasks,            \* running invocations of the async functions, with their locals
    session           \* whether activate() has run, and the history of the workspace:
                      \* how often a non-forced pass has shown the apply prompt

vars == <<extensionsAll, workspaceState, configuration, workspaceFolders,
          profileFiles, tasks, session>>

------------------------------------------------------------------------------
(* Bounds of the model *)

MaxProfileLen == 2      \* longest extension list of a profile given to applyProfile
MaxInstalled == 3       \* most extensions of the pool installed initially

------------------------------------------------------------------------------
(* JavaScript values and string methods *)

Undefined == "undefined"

Null == <<>>
Some(v) == <<v>>

UpperChars == "ABCDEFGHIJKLMNOPQRSTUVWXYZ"
LowerChars == "abcdefghijklmnopqrstuvwxyz"

\* The lowercase letter of each uppercase letter
UpperToLower ==
    [c \in {SubSeq(UpperChars, i, i) : i \in 1..Len(UpperChars)} |->
        LET i == CHOOSE j \in 1..Len(UpperChars) : SubSeq(UpperChars, j, j) = c
        IN  SubSeq(LowerChars, i, i)]

LowerChar(c) == IF c \in DOMAIN UpperToLower THEN UpperToLower[c] ELSE c

RECURSIVE toLowerCase(_)
toLowerCase(s) ==
    IF Len(s) = 0 THEN ""
    ELSE LowerChar(SubSeq(s, 1, 1)) \o toLowerCase(SubSeq(s, 2, Len(s)))

\* String.prototype.includes
includes(s, sub) ==
    \E i \in 1..(Len(s) - Len(sub) + 1) : SubSeq(s, i, i + Len(sub) - 1) = sub

\* String.prototype.startsWith
startsWith(s, prefix) ==
    /\ Len(s) >= Len(prefix)
    /\ SubSeq(s, 1, Len(prefix)) = prefix

\* Array.prototype.includes
arrayIncludes(arr, v) == \E i \in 1..Len(arr) : arr[i] = v

\* Array.prototype.map
RECURSIVE arrayMap(_, _)
arrayMap(F(_), arr) ==
    IF arr = <<>> THEN <<>> ELSE <<F(Head(arr))>> \o arrayMap(F, Tail(arr))

\* Array.prototype.filter
RECURSIVE arrayFilter(_, _)
arrayFilter(P(_), arr) ==
    IF arr = <<>> THEN <<>>
    ELSE (IF P(Head(arr)) THEN <<Head(arr)>> ELSE <<>>) \o arrayFilter(P, Tail(arr))

Range(seq) == {seq[i] : i \in 1..Len(seq)}

\* All sequences over S of length at most n
SeqsUpTo(S, n) == UNION {[1..k -> S] : k \in 0..n}

\* The subsequences of seq (order kept) with at most n elements
SubSeqsUpTo(seq, n) ==
    LET Pick(I) == [k \in 1..Cardinality(I) |->
                       seq[CHOOSE i \in I : Cardinality({j \in I : j < i}) = k - 1]]
    IN  {Pick(I) : I \in {J \in SUBSET (1..Len(seq)) : Cardinality(J) <= n}}

------------------------------------------------------------------------------
(* Host data: installed extensions, profiles, the marketplace *)

homedir == "/home/u"
vscodePath == homedir \o "/.vscode/extensions"

\* An element of vscode.extensions.all.  themes, iconThemes and productIconThemes
\* are the lengths of packageJSON.contributes.* (0 when the key is absent).
Extension(id, extensionPath, themes, iconThemes, productIconThemes, categories) ==
    [id |-> id, extensionPath |-> extensionPath,
     contributes |-> [themes |-> themes, iconThemes |-> iconThemes,
                      productIconThemes |-> productIconThemes],
     categories |-> categories]

\* packageJSON.categories that is no array but an object: includes is not a
\* function of it
NoArray == <<"<no array>">>

\* An extension installed by the user, contributing nothing special
UserExtension(id) == Extension(id, vscodePath \o "/" \o id, 0, 0, 0, <<>>)

ownExtensionId == "josefosaurus.workspace-extension-manager"

\* The extensions the host may have installed before a profile is applied
ExtensionPool ==
    << UserExtension("Profile.Ext1"),
       UserExtension("other.ext"),
       UserExtension("user.ext"),
       Extension("theme.ext", vscodePath \o "/theme.ext", 1, 0, 0, <<>>),
       Extension("icons.ext", vscodePath \o "/icons.ext", 0, 1, 0, <<"Other">>),
       Extension("darkplus.ext", vscodePath \o "/darkplus.ext", 0, 0, 0, <<"Themes">>),
       Extension("builtin.ext", "/usr/share/code/extensions/builtin.ext", 0, 0, 0, <<>>),
       Extension("copilot.ext", vscodePath \o "/copilot.ext", 0, 0, 0, <<"AI", "Other">>),
       UserExtension(ownExtensionId),
       UserExtension("acme.workspace-extension-manager-ui") >>

\* ProfileConfig: settings is Null (absent) or Some(<<key, ...>>), the keys in
\* the order of Object.entries
ProfileConfig(name, extensions, settings) ==
    [name |-> name, extensions |-> extensions, settings |-> settings]

\* JSON.parse(content) as ProfileConfig checks no types: an entry of
\* "extensions" that is no string, on which toLowerCase is not a function
NonString == "<no string>"

\* Extension ids a profile may list
ProfileIdPool == {"profile.ext1", "Other.Ext"}

SettingsPool == {Null, Some(<<"editor.formatOnSave", "editor.tabSize">>)}

\* A parsed marketplace response.  valid = FALSE: JSON.parse throws.
\* results = Null: the JSON has no results[0].extensions.  An entry of the
\* extensions array has a publisher or not, an id publisherName.extensionName,
\* and the properties of its latest version.
ResponseExtension(hasPublisher, id, deprecation, alternate) ==
    [hasPublisher |-> hasPublisher, id |-> id, deprecation |-> deprecation,
     alternate |-> alternate]

ResponseBody(valid, results) == [valid |-> valid, results |-> results]

EntryStatus == {"absent", "listed", "deprecated", "replaced", "noPublisher"}

\* The lowercase forms of ids, each once, in order of first occurrence
RECURSIVE distinctLower(_, _)
distinctLower(ids, seen) ==
    IF ids = <<>> THEN <<>>
    ELSE LET k == toLowerCase(Head(ids))
         IN  IF k \in seen THEN distinctLower(Tail(ids), seen)
             ELSE <<Head(ids)>> \o distinctLower(Tail(ids), seen \cup {k})

\* The responses the marketplace may send to a query for ids: for each id
\* queried, no entry, a plain entry, a deprecated one (with or without a
\* replacement) or an entry without publisher; or no results; or no JSON.
ResponseBodies(ids) ==
    LET asked == distinctLower(ids, {})
        EntryOf(id, st) ==
            ResponseExtension(st # "noPublisher", id,
                              st \in {"deprecated", "replaced"},
                              IF st = "replaced" THEN "new." \o toLowerCase(id)
                              ELSE Undefined)
        BodyOf(f) ==
            LET idx == arrayFilter(LAMBDA i : f[i] # "absent",
                                   [i \in 1..Len(asked) |-> i])
            IN  [k \in 1..Len(idx) |-> EntryOf(asked[idx[k]], f[idx[k]])]
    IN  {ResponseBody(TRUE, Some(BodyOf(f))) : f \in [1..Len(asked) -> EntryStatus]}
        \cup {ResponseBody(TRUE, Null), ResponseBody(FALSE, Null)}

------------------------------------------------------------------------------
(* ProfileManager: the pure parts *)

\* Map.prototype.set, Map.prototype.has, Map.prototype.get on a map held as a function
mapSet(m, k, v) == [x \in (DOMAIN m) \cup {k} |-> IF x = k THEN v ELSE m[x]]
mapHas(m, k) == k \in DOMAIN m

MarketplaceExtensionInfo(deprecated, notFound, replacement) ==
    [deprecated |-> deprecated, notFound |-> notFound, replacement |-> replacement]

\* info?.notFound and info?.deprecated of marketplaceInfo.get(key)
infoNotFound(m, k) == mapHas(m, k) /\ m[k].notFound
infoDeprecated(m, k) == mapHas(m, k) /\ m[k].deprecated
infoReplacement(m, k) == IF mapHas(m, k) THEN m[k].replacement ELSE Undefined

\* Mutant: the ids are compared as they are written
getMissingExtensions_CaseSensitive(extensionIds, all) ==
    LET installedExtensions == arrayMap(LAMBDA ext : ext.id, all)
    IN  arrayFilter(LAMBDA extId : ~arrayIncludes(installedExtensions, extId),
                    extensionIds)

RECURSIVE reversed(_)
reversed(arr) == IF arr = <<>> THEN <<>> ELSE reversed(Tail(arr)) \o <<Head(arr)>>

\* Mutant: the missing ids are collected with unshift instead of push
getMissingExtensions_Unshift(extensionIds, all) ==
    LET installedExtensions == arrayMap(LAMBDA ext : toLowerCase(ext.id), all)
    IN  reversed(arrayFilter(LAMBDA extId :
                                 ~arrayIncludes(installedExtensions, toLowerCase(extId)),
                             extensionIds))

\* extId.toLowerCase() throws a TypeError in the loop of getMissingExtensions
getMissingExtensionsThrows(extensionIds) ==
    \E i \in 1..Len(extensionIds) : extensionIds[i] = NonString

getMissingExtensions(extensionIds, all) ==
    LET installedExtensions == arrayMap(LAMBDA ext : toLowerCase(ext.id), all)
    IN  arrayFilter(LAMBDA extId :
                        ~arrayIncludes(installedExtensions, toLowerCase(extId)),
                    extensionIds)

\* The filter of disableNonProfileExtensions: TRUE when ext is to be disabled
isNonProfileExtension(ext, profileExtensions) ==
    LET profileSet == Range(arrayMap(toLowerCase, profileExtensions))
    IN  /\ ~(toLowerCase(ext.id) \in profileSet)
        /\ ~includes(toLowerCase(ext.id), "workspace-extension-manager")
        /\ startsWith(ext.extensionPath, vscodePath)
        /\ ~(\/ ext.contributes.themes > 0
             \/ ext.contributes.iconThemes > 0
             \/ ext.contributes.productIconThemes > 0
             \/ arrayIncludes(ext.categories, "Themes"))
        /\ ~(\E i \in 1..Len(ext.categories) :
                 arrayIncludes(<<"AI", "Machine Learning", "Data Science">>,
                               ext.categories[i]))

\* The filter throws a TypeError on ext: categories.includes is reached and is
\* not a function
filterThrows(ext, profileExtensions) ==
    LET profileSet == Range(arrayMap(toLowerCase, profileExtensions))
    IN  /\ ~(toLowerCase(ext.id) \in profileSet)
        /\ ~includes(toLowerCase(ext.id), "workspace-extension-manager")
        /\ startsWith(ext.extensionPath, vscodePath)
        /\ ext.contributes.themes = 0
        /\ ext.contributes.iconThemes = 0
        /\ ext.contributes.productIconThemes = 0
        /\ ext.categories = NoArray

toDisableThrows(profileExtensions, all) ==
    \E j \in 1..Len(all) : filterThrows(all[j], profileExtensions)

toDisableOf(profileExtensions, all) ==
    arrayFilter(LAMBDA ext : isNonProfileExtension(ext, profileExtensions), all)

candidates == << "workbench.extensions.disableExtension",
                 "workbench.extensions.action.disableExtension" >>

installCommand == "workbench.extensions.installExtension"

\* Mutant: an id counts as not found until the marketplace returns it
RECURSIVE initialResult_NotFoundUntilReturned(_)
initialResult_NotFoundUntilReturned(extensionIds) ==
    IF extensionIds = <<>> THEN << >>
    ELSE mapSet(initialResult_NotFoundUntilReturned(
                    SubSeq(extensionIds, 1, Len(extensionIds) - 1)),
                toLowerCase(extensionIds[Len(extensionIds)]),
                MarketplaceExtensionInfo(FALSE, TRUE, Undefined))

\* checkExtensionsDeprecation: the map before the request is made
RECURSIVE initialResult(_)
initialResult(extensionIds) ==
    IF extensionIds = <<>> THEN << >>
    ELSE mapSet(initialResult(SubSeq(extensionIds, 1, Len(extensionIds) - 1)),
                toLowerCase(extensionIds[Len(extensionIds)]),
                MarketplaceExtensionInfo(FALSE, FALSE, Undefined))

\* The loop over the returned extensions.  acc = [result, foundIds, threw];
\* reading ext.publisher.publisherName of an entry without publisher throws.
RECURSIVE processExtensions(_, _)
processExtensions(extensions, acc) ==
    IF extensions = <<>> THEN acc
    ELSE LET ext == Head(extensions)
         IN  IF ~ext.hasPublisher
             THEN [acc EXCEPT !.threw = TRUE]
             ELSE LET id == toLowerCase(ext.id)
                      res == IF ext.deprecation
                             THEN mapSet(acc.result, id,
                                         MarketplaceExtensionInfo(TRUE, FALSE, ext.alternate))
                             ELSE acc.result
                  IN  processExtensions(Tail(extensions),
                          [result |-> res, foundIds |-> acc.foundIds \cup {id},
                           threw |-> FALSE])

\* Mutant: the ids asked are looked up in foundIds as they are written
RECURSIVE markNotFound_CaseSensitive(_, _, _)
markNotFound_CaseSensitive(extensionIds, foundIds, result) ==
    IF extensionIds = <<>> THEN result
    ELSE markNotFound_CaseSensitive(Tail(extensionIds), foundIds,
             IF ~(Head(extensionIds) \in foundIds)
             THEN mapSet(result, toLowerCase(Head(extensionIds)),
                         MarketplaceExtensionInfo(FALSE, TRUE, Undefined))
             ELSE result)

\* The loop that marks the ids the response did not return
RECURSIVE markNotFound(_, _, _)
markNotFound(extensionIds, foundIds, result) ==
    IF extensionIds = <<>> THEN result
    ELSE markNotFound(Tail(extensionIds), foundIds,
             IF ~(toLowerCase(Head(extensionIds)) \in foundIds)
             THEN mapSet(result, toLowerCase(Head(extensionIds)),
                         MarketplaceExtensionInfo(FALSE, TRUE, Undefined))
             ELSE result)

\* The res 'end' handler: the map after the response body was processed
onResponseEnd(result, extensionIds, body) ==
    IF ~body.valid THEN result
    ELSE LET extensions == IF body.results = Null THEN <<>> ELSE body.results[1]
             acc == processExtensions(extensions,
                        [result |-> result, foundIds |-> {}, threw |-> FALSE])
         IN  IF acc.threw THEN acc.result
             ELSE markNotFound(extensionIds, acc.foundIds, acc.result)

\* Mutant: deprecated ids are warned about but still installed
toInstallOf_InstallsDeprecated(missing, marketplaceInfo) ==
    arrayFilter(LAMBDA extId : ~infoNotFound(marketplaceInfo, toLowerCase(extId)),
                missing)

\* installMissingExtensions: the ids left to install
toInstallOf(missing, marketplaceInfo) ==
    arrayFilter(LAMBDA extId :
                    /\ ~infoNotFound(marketplaceInfo, toLowerCase(extId))
                    /\ ~infoDeprecated(marketplaceInfo, toLowerCase(extId)),
                missing)

------------------------------------------------------------------------------
(* detector.ts *)

\* A path is the sequence of its components
DetectionRule(type, files, priority) == [type |-> type, files |-> files, priority |-> priority]

EXCLUDED_FOLDERS ==
    << "node_modules", ".git", ".vscode", "libraries", "vendor", "build", "dist",
       "out", ".next", ".nuxt", "target", "__pycache__", ".pytest_cache", "venv",
       ".venv", "env", ".env" >>

detectionRules ==
    << DetectionRule("node", <<"package.json", "tsconfig.json", "yarn.lock",
                               "pnpm-lock.yaml">>, 1),
       DetectionRule("python", <<"requirements.txt", "setup.py", "pyproject.toml",
                                 "Pipfile", "poetry.lock", ".python-version">>, 1),
       DetectionRule("rust", <<"Cargo.toml", "Cargo.lock">>, 1),
       DetectionRule("go", <<"go.mod", "go.sum">>, 1) >>

\* Mutant: the configured list extends the default list
getExcludedFolders_Merged(conf) ==
    LET userExcluded == IF conf.excludedFolders = Null THEN <<>>
                        ELSE conf.excludedFolders[1]
    IN  userExcluded \o EXCLUDED_FOLDERS

getExcludedFolders(conf) ==
    LET userExcluded == IF conf.excludedFolders = Null THEN <<>>
                        ELSE conf.excludedFolders[1]
    IN  IF Len(userExcluded) > 0 THEN userExcluded ELSE EXCLUDED_FOLDERS

\* path.join(rootPath, file) and path.relative(rootPath, filePath)
pathJoin(rootPath, file) == rootPath \o <<file>>
pathRelative(rootPath, filePath) == SubSeq(filePath, Len(rootPath) + 1, Len(filePath))

isPathExcluded(filePath, rootPath, excludedFolders) ==
    LET pathParts == pathRelative(rootPath, filePath)
    IN  \E i \in 1..Len(pathParts) : arrayIncludes(excludedFolders, pathParts[i])

\* The workspace folder is at rootPath; folder is the set of the paths of its
\* files, relative to it
rootPath == <<"home", "u", "project">>
\* Mutant: a file of that name at any depth counts
existsSync_AnyDepth(folder, filePath) ==
    \E f \in folder : f[Len(f)] = filePath[Len(filePath)]

existsSync(folder, filePath) == pathRelative(rootPath, filePath) \in folder

\* Mutant: every candidate file counts as found
matchCountOf_AnyFile(files, folder, excludedFolders) == Len(files)

\* The inner loop of detectProjectType over rule.files
RECURSIVE matchCountOf(_, _, _)
matchCountOf(files, folder, excludedFolders) ==
    IF files = <<>> THEN 0
    ELSE LET filePath == pathJoin(rootPath, Head(files))
             rest == matchCountOf(Tail(files), folder, excludedFolders)
         IN  IF isPathExcluded(filePath, rootPath, excludedFolders) THEN rest
             ELSE IF existsSync(folder, filePath) THEN rest + 1
             ELSE rest

\* The outer loop: the {type, score} of the rules that matched, in rule order
RECURSIVE detectedTypesOf(_, _, _)
detectedTypesOf(rules, folder, excludedFolders) ==
    IF rules = <<>> THEN <<>>
    ELSE LET rule == Head(rules)
             matchCount == matchCountOf(rule.files, folder, excludedFolders)
         IN  (IF matchCount > 0
              THEN <<[type |-> rule.type, score |-> matchCount * rule.priority]>>
              ELSE <<>>)
             \o detectedTypesOf(Tail(rules), folder, excludedFolders)

\* Mutant: the sort is ascending
RECURSIVE insertByScore_Ascending(_, _)
insertByScore_Ascending(sorted, e) ==
    IF sorted = <<>> THEN <<e>>
    ELSE IF Head(sorted).score <= e.score
         THEN <<Head(sorted)>> \o insertByScore_Ascending(Tail(sorted), e)
         ELSE <<e>> \o sorted

\* Mutant: among equal scores the later element comes first
RECURSIVE insertByScore_LaterFirst(_, _)
insertByScore_LaterFirst(sorted, e) ==
    IF sorted = <<>> THEN <<e>>
    ELSE IF Head(sorted).score > e.score
         THEN <<Head(sorted)>> \o insertByScore_LaterFirst(Tail(sorted), e)
         ELSE <<e>> \o sorted

\* Array.prototype.sort((a, b) => b.score - a.score): a stable sort, by insertion
RECURSIVE insertByScore(_, _)
insertByScore(sorted, e) ==
    IF sorted = <<>> THEN <<e>>
    ELSE IF Head(sorted).score >= e.score
         THEN <<Head(sorted)>> \o insertByScore(Tail(sorted), e)
         ELSE <<e>> \o sorted

RECURSIVE sortByScoreDescending(_)
sortByScoreDescending(arr) ==
    IF arr = <<>> THEN <<>>
    ELSE insertByScore(sortByScoreDescending(SubSeq(arr, 1, Len(arr) - 1)), arr[Len(arr)])

\* Mutant: with nothing detected the first rule's type is returned
detectWithRules_NeverUnknown(rules, folder, conf) ==
    LET detectedTypes == detectedTypesOf(rules, folder, getExcludedFolders(conf))
    IN  IF Len(detectedTypes) = 0 THEN rules[1].type
        ELSE sortByScoreDescending(detectedTypes)[1].type

\* The body of detectProjectType, over the rules it loops on
detectWithRules(rules, folder, conf) ==
    LET detectedTypes == detectedTypesOf(rules, folder, getExcludedFolders(conf))
    IN  IF Len(detectedTypes) = 0 THEN "unknown"
        ELSE sortByScoreDescending(detectedTypes)[1].type

detectProjectType(folder, conf) == detectWithRules(detectionRules, folder, conf)

------------------------------------------------------------------------------
(* Tasks: the invocations of the async functions *)

\* One slot for each origin of an invocation: the startup timer of activate,
\* the detectAndApply command and the switchProfile command
TaskIds == {"timer", "detectAndApply", "switchProfile"}

\* A call made on the host API
Call(api, a, b) == [api |-> api, a |-> a, b |-> b]

IdleTask ==
    [pc |-> "idle",              \* the await the task is suspended at
     forcePrompt |-> FALSE,
     projectType |-> Undefined,  \* projectType / selectedType
     profileConfig |-> Null,     \* profileConfig of detectAndApplyProfile
     config |-> Null,            \* config of applyProfile, once it was called
     missing |-> <<>>,
     result |-> << >>,           \* the Map of checkExtensionsDeprecation
     data |-> Null,              \* the response body received, once it ended
     socketIdle |-> FALSE,       \* the request's socket has seen no activity for a while
     toInstall |-> <<>>,
     toDisable |-> <<>>,         \* ids of toDisable
     idx |-> 0,                  \* position of the loop the task is in
     cand |-> 0,                 \* position in candidates while probing
     disableCommandId |-> Undefined,
     success |-> Null,           \* what applyProfile returned
     calls |-> <<>>]             \* the host calls made, in order

issue(t, c) == [t EXCEPT !.calls = Append(@, c)]

\* WorkspaceConfiguration.get(key, defaultValue)
configGet(section, key, defaultValue) ==
    IF section[key] = Null THEN defaultValue ELSE section[key][1]

\* promptForReload up to its await
promptForReload(t) ==
    [issue(t, Call("showInformationMessage", "reload", "")) EXCEPT !.pc = "reloadPrompt"]

\* Mutant: the profile is recorded as applied whatever applyProfile returned
returnFromApply_StoresAlways(t, id, success) ==
    LET r == [t EXCEPT !.success = Some(success)]
    IN  [issue(r, Call("workspaceState.update", "appliedProfile", r.projectType))
            EXCEPT !.pc = "saveApplied"]

\* The caller of applyProfile, from the value returned up to its next await
returnFromApply(t, id, success) ==
    LET r == [t EXCEPT !.success = Some(success)]
        shown == IF id = "switchProfile"
                 THEN issue(r, Call("statusBar.show", r.projectType, ""))
                 ELSE r
    IN  IF ~success THEN [r EXCEPT !.pc = "done"]
        ELSE [issue(shown, Call("workspaceState.update", "appliedProfile", r.projectType))
                 EXCEPT !.pc = "saveApplied"]

\* Mutant: applyProfile returns false when a step of it failed
finishApply_FalseAfterFailure(t, id) ==
    IF \E i \in 1..Len(t.calls) :
           \/ t.calls[i].api = "console.warn"
           \/ t.calls[i] = Call("showWarningMessage", "noDisableCommand", "")
    THEN returnFromApply(issue(t, Call("showErrorMessage", "failedToApply", "")), id, FALSE)
    ELSE returnFromApply(issue(t, Call("showInformationMessage", "applied", t.config[1].name)),
                         id, TRUE)

\* applyProfile after its last step: the notification and return true
finishApply(t, id) ==
    returnFromApply(issue(t, Call("showInformationMessage", "applied", t.config[1].name)),
                    id, TRUE)

\* The catch block of applyProfile: the error notification and return false
failApply(t, id) ==
    returnFromApply(issue(t, Call("showErrorMessage", "failedToApply", "")), id, FALSE)

\* Mutant: the loop ends at the first key that could not be updated
updateSetting_StopsAtFailure(t, id, k) ==
    LET settings == t.config[1].settings
    IN  IF /\ settings # Null /\ k <= Len(settings[1])
           /\ \A i \in 1..Len(t.calls) :
                  ~(t.calls[i].api = "console.warn" /\ t.calls[i].a = "settingFailed")
        THEN [issue(t, Call("config.update", settings[1][k], "Workspace"))
                 EXCEPT !.pc = "settings", !.idx = k]
        ELSE finishApply(t, id)

\* applySettings: the update of the key at position k, or the end of the loop
updateSetting(t, id, k) ==
    LET settings == t.config[1].settings
    IN  IF settings # Null /\ k <= Len(settings[1])
        THEN [issue(t, Call("config.update", settings[1][k], "Workspace"))
                 EXCEPT !.pc = "settings", !.idx = k]
        ELSE finishApply(t, id)

applySettings(t, id) == updateSetting(t, id, 1)

\* Mutant: the loop ends at the first extension that could not be disabled
disableRemaining_StopsAtFailure(t, id, k) ==
    IF k <= Len(t.toDisable)
       /\ \A i \in 1..Len(t.calls) :
              ~(t.calls[i].api = "console.warn" /\ t.calls[i].a = "disableFailed")
    THEN [issue(t, Call("executeCommand", t.disableCommandId, t.toDisable[k]))
             EXCEPT !.pc = "disable", !.idx = k]
    ELSE applySettings(t, id)

\* Mutant: the remaining extensions are disabled with the first candidate
disableRemaining_FirstCandidate(t, id, k) ==
    IF k <= Len(t.toDisable)
    THEN [issue(t, Call("executeCommand", candidates[1], t.toDisable[k]))
             EXCEPT !.pc = "disable", !.idx = k]
    ELSE applySettings(t, id)

\* The loop over toDisable[1..]: the call for position k, or the end of the loop
disableRemaining(t, id, k) ==
    IF k <= Len(t.toDisable)
    THEN [issue(t, Call("executeCommand", t.disableCommandId, t.toDisable[k]))
             EXCEPT !.pc = "disable", !.idx = k]
    ELSE applySettings(t, id)

\* Mutant: with no candidate left, the remaining extensions are still tried
probeCandidate_KeepsGoing(t, id, c) ==
    IF c <= Len(candidates)
    THEN [issue(t, Call("executeCommand", candidates[c], t.toDisable[1]))
             EXCEPT !.pc = "probe", !.cand = c]
    ELSE LET w == issue(t, Call("showWarningMessage", "noDisableCommand", ""))
         IN  IF Len(t.toDisable) >= 2
             THEN [issue(w, Call("executeCommand", candidates[1], t.toDisable[2]))
                      EXCEPT !.pc = "disable", !.idx = 2]
             ELSE applySettings(w, id)

\* The probe loop: candidate c tried on the probe, or no candidate left
probeCandidate(t, id, c) ==
    IF c <= Len(candidates)
    THEN [issue(t, Call("executeCommand", candidates[c], t.toDisable[1]))
             EXCEPT !.pc = "probe", !.cand = c]
    ELSE applySettings(issue(t, Call("showWarningMessage", "noDisableCommand", "")), id)

\* The probe's executeCommand settled
afterProbe(t, id, ok) ==
    IF ok THEN disableRemaining([t EXCEPT !.disableCommandId = candidates[t.cand]], id, 2)
    ELSE probeCandidate(t, id, t.cand + 1)

\* disableNonProfileExtensions up to its first await
disableNonProfileExtensions(t, id, all) ==
    LET toDisable == toDisableOf(t.config[1].extensions, all)
    IN  IF Len(toDisable) = 0 THEN applySettings(t, id)
        ELSE probeCandidate([t EXCEPT !.toDisable = arrayMap(LAMBDA ext : ext.id, toDisable),
                                      !.disableCommandId = Undefined],
                            id, 1)

\* Mutant: the extensions outside the profile are disabled whatever the flag
afterInstallMissing_IgnoresFlag(t, id, all, conf) ==
    IF toDisableThrows(t.config[1].extensions, all)
    THEN applySettings(issue(t, Call("console.warn", "disableNonProfileExtensionsFailed", "")),
                       id)
    ELSE disableNonProfileExtensions(t, id, all)

\* applyProfile after installMissingExtensions returned: the disable step, in
\* its try/catch, then the settings
afterInstallMissing(t, id, all, conf) ==
    IF configGet(conf, "disableOtherExtensions", TRUE)
    THEN IF toDisableThrows(t.config[1].extensions, all)
         THEN applySettings(issue(t, Call("console.warn",
                                          "disableNonProfileExtensionsFailed", "")), id)
         ELSE disableNonProfileExtensions(t, id, all)
    ELSE applySettings(t, id)

\* Mutant: the loop ends at the first install that failed
installNext_StopsAtFailure(t, id, k, all, conf) ==
    IF k <= Len(t.toInstall)
       /\ \A i \in 1..Len(t.calls) :
              ~(t.calls[i].api = "console.warn" /\ t.calls[i].a = "installFailed")
    THEN [issue(t, Call("executeCommand", installCommand, t.toInstall[k]))
             EXCEPT !.pc = "install", !.idx = k]
    ELSE afterInstallMissing(t, id, all, conf)

\* Mutant: the loop looks each id up in the advisory again before installing it
RECURSIVE installNext_ReadsAdvisoryAgain(_, _, _, _, _)
installNext_ReadsAdvisoryAgain(t, id, k, all, conf) ==
    IF k <= Len(t.toInstall)
    THEN IF \/ infoNotFound(t.result, toLowerCase(t.toInstall[k]))
            \/ infoDeprecated(t.result, toLowerCase(t.toInstall[k]))
         THEN installNext_ReadsAdvisoryAgain(t, id, k + 1, all, conf)
         ELSE [issue(t, Call("executeCommand", installCommand, t.toInstall[k]))
                  EXCEPT !.pc = "install", !.idx = k]
    ELSE afterInstallMissing(t, id, all, conf)

\* The install loop: the call for position k, or the end of the loop
installNext(t, id, k, all, conf) ==
    IF k <= Len(t.toInstall)
    THEN [issue(t, Call("executeCommand", installCommand, t.toInstall[k]))
             EXCEPT !.pc = "install", !.idx = k]
    ELSE afterInstallMissing(t, id, all, conf)

\* The warnings of the partition loop of installMissingExtensions
RECURSIVE skipWarnings(_, _)
skipWarnings(missing, marketplaceInfo) ==
    IF missing = <<>> THEN <<>>
    ELSE LET extId == Head(missing)
             key == toLowerCase(extId)
             w == IF infoNotFound(marketplaceInfo, key)
                  THEN <<Call("showWarningMessage", "notFound", extId)>>
                  ELSE IF infoDeprecated(marketplaceInfo, key)
                  THEN IF infoReplacement(marketplaceInfo, key) # Undefined
                       THEN <<Call("showWarningMessage", "deprecatedUseInstead", extId)>>
                       ELSE <<Call("showWarningMessage", "deprecatedSkipped", extId)>>
                  ELSE <<>>
         IN  w \o skipWarnings(Tail(missing), marketplaceInfo)

\* installMissingExtensions from the advisory to its next await
afterDeprecationCheck(t, id, all, conf) ==
    LET t1 == [t EXCEPT !.calls = @ \o skipWarnings(t.missing, t.result),
                        !.toInstall = toInstallOf(t.missing, t.result)]
    IN  installNext(t1, id, 1, all, conf)

\* installMissingExtensions up to its first await
installMissingExtensions(t, id, all, conf) ==
    IF getMissingExtensionsThrows(t.config[1].extensions) THEN failApply(t, id)
    ELSE
    LET missing == getMissingExtensions(t.config[1].extensions, all)
    IN  IF Len(missing) = 0 THEN afterInstallMissing(t, id, all, conf)
        ELSE [issue(t, Call("https.request", "extensionquery", ""))
                 EXCEPT !.pc = "marketplace", !.missing = missing,
                        !.result = initialResult(missing)]

\* applyProfile(config) up to its first await
applyProfile(t, id, config, all, conf) ==
    installMissingExtensions(
        [t EXCEPT !.config = Some(config), !.missing = <<>>, !.result = << >>,
                  !.data = Null,
                  !.toInstall = <<>>, !.toDisable = <<>>, !.idx = 0, !.cand = 0,
                  !.disableCommandId = Undefined, !.success = Null],
        id, all, conf)

------------------------------------------------------------------------------
(* Profile store (profiles.ts) and picker (ui.ts) *)

ProjectTypes == <<"node", "python", "rust", "go">>

\* profiles/<type>.json: exists or not; content = Null when it does not parse
ProfileFile(exists, content) == [exists |-> exists, content |-> content]
NoProfileFile == ProfileFile(FALSE, Null)

\* Mutant: a type without profile falls back on the node profile
getProfileConfig_FallsBack(files, projectType) ==
    IF projectType = "unknown" THEN Null
    ELSE IF ~files[projectType].exists THEN files["node"].content
    ELSE files[projectType].content

getProfileConfig(files, projectType) ==
    IF projectType = "unknown" THEN Null
    ELSE IF ~files[projectType].exists THEN Null
    ELSE files[projectType].content

\* readdirSync of profiles/, the .json files with the suffix removed
getAvailableProfiles(files) ==
    arrayFilter(LAMBDA p : files[p].exists, <<"go", "node", "python", "rust">>)

\* The items showProfilePicker offers
pickerItems(files) == arrayFilter(LAMBDA p : p # "unknown", getAvailableProfiles(files))

\* switchProfile up to its first await
switchProfile(t, files) ==
    IF Len(getAvailableProfiles(files)) = 0
    THEN [issue(t, Call("showWarningMessage", "noProfiles", "")) EXCEPT !.pc = "done"]
    ELSE [issue(t, Call("showQuickPick", "", "")) EXCEPT !.pc = "picker"]

\* switchProfile from the picker's answer (selected = Null: dismissed)
afterPicker(t, id, selected, files, all, conf) ==
    IF selected = Null THEN [t EXCEPT !.pc = "done"]
    ELSE LET selectedType == selected[1]
             profileConfig == getProfileConfig(files, selectedType)
             t1 == [t EXCEPT !.projectType = selectedType]
         IN  IF profileConfig = Null
             THEN [issue(t1, Call("showErrorMessage", "profileNotFound", selectedType))
                      EXCEPT !.pc = "done"]
             ELSE applyProfile(t1, id, profileConfig[1], all, conf)

------------------------------------------------------------------------------
(* detectAndApplyProfile (extension.ts) and its prompt (ui.ts) *)

\* showNotification(message, type)
showNotification(t, message, type) ==
    issue(t, Call(CASE type = "info" -> "showInformationMessage"
                    [] type = "warning" -> "showWarningMessage"
                    [] OTHER -> "showErrorMessage",
                  message, ""))

\* "Skip if we've already applied this profile and not forcing"
alreadyApplied_Never(forcePrompt, appliedProfile, projectType) == FALSE

alreadyApplied(forcePrompt, appliedProfile, projectType) ==
    ~forcePrompt /\ appliedProfile = projectType

\* Mutant: a declined prompt is not remembered
previouslyDeclined_Forgotten(forcePrompt, hasPrompted, appliedProfile) == FALSE

\* Mutant: a declined prompt also stops a forced pass
previouslyDeclined_EvenForced(forcePrompt, hasPrompted, appliedProfile) ==
    hasPrompted /\ appliedProfile \in {Undefined, ""}

\* "Skip if we've already prompted and user declined"
previouslyDeclined(forcePrompt, hasPrompted, appliedProfile) ==
    ~forcePrompt /\ hasPrompted /\ appliedProfile \in {Undefined, ""}

\* Mutant: the prompt is shown without hasPrompted being stored first
detectAndApplyProfile_PromptsUnrecorded(t, forcePrompt, folders, state, files, all, conf) ==
    LET t0 == [t EXCEPT !.forcePrompt = forcePrompt]
    IN  IF Len(folders) = 0
        THEN [showNotification(t0, "noWorkspaceFolder", "warning") EXCEPT !.pc = "done"]
        ELSE
        LET projectType == detectProjectType(folders[1], conf)
            t1 == issue([t0 EXCEPT !.projectType = projectType],
                        Call("statusBar.show", projectType, ""))
            appliedProfile == state.appliedProfile
            hasPrompted == IF state.hasPrompted = Null THEN FALSE ELSE state.hasPrompted[1]
            profileConfig == getProfileConfig(files, projectType)
        IN  IF projectType = "unknown"
            THEN [showNotification(t1, "couldNotDetect", "info") EXCEPT !.pc = "done"]
            ELSE IF alreadyApplied(forcePrompt, appliedProfile, projectType)
            THEN [t1 EXCEPT !.pc = "done"]
            ELSE IF previouslyDeclined(forcePrompt, hasPrompted, appliedProfile)
            THEN [t1 EXCEPT !.pc = "done"]
            ELSE IF profileConfig = Null
            THEN [showNotification(t1, "noProfileAvailable", "warning") EXCEPT !.pc = "done"]
            ELSE IF getMissingExtensionsThrows(profileConfig[1].extensions)
            THEN [t1 EXCEPT !.pc = "done"]
            ELSE
            LET missingExtensions == getMissingExtensions(profileConfig[1].extensions, all)
            IN  IF ~forcePrompt /\ Len(missingExtensions) = 0 /\ appliedProfile = projectType
                THEN [t1 EXCEPT !.pc = "done"]
                ELSE [issue([t1 EXCEPT !.profileConfig = profileConfig],
                            Call("showInformationMessage", "prompt", projectType))
                         EXCEPT !.pc = "prompt"]

\* detectAndApplyProfile(forcePrompt) up to its first await on the host.  The
\* awaits of detectProjectType and getMissingExtensions are on functions that
\* never wait: they resume within the same turn.
detectAndApplyProfile(t, forcePrompt, folders, state, files, all, conf) ==
    LET t0 == [t EXCEPT !.forcePrompt = forcePrompt]
    IN  IF Len(folders) = 0
        THEN [showNotification(t0, "noWorkspaceFolder", "warning") EXCEPT !.pc = "done"]
        ELSE
        LET projectType == detectProjectType(folders[1], conf)
            t1 == issue([t0 EXCEPT !.projectType = projectType],
                        Call("statusBar.show", projectType, ""))
            appliedProfile == state.appliedProfile
            hasPrompted == IF state.hasPrompted = Null THEN FALSE ELSE state.hasPrompted[1]
            profileConfig == getProfileConfig(files, projectType)
        IN  IF projectType = "unknown"
            THEN [showNotification(t1, "couldNotDetect", "info") EXCEPT !.pc = "done"]
            ELSE IF alreadyApplied(forcePrompt, appliedProfile, projectType)
            THEN [t1 EXCEPT !.pc = "done"]
            ELSE IF previouslyDeclined(forcePrompt, hasPrompted, appliedProfile)
            THEN [t1 EXCEPT !.pc = "done"]
            ELSE IF profileConfig = Null
            THEN [showNotification(t1, "noProfileAvailable", "warning") EXCEPT !.pc = "done"]
            ELSE IF getMissingExtensionsThrows(profileConfig[1].extensions)
            THEN [t1 EXCEPT !.pc = "done"]
            ELSE
            LET missingExtensions == getMissingExtensions(profileConfig[1].extensions, all)
            IN  IF ~forcePrompt /\ Len(missingExtensions) = 0 /\ appliedProfile = projectType
                THEN [t1 EXCEPT !.pc = "done"]
                ELSE [issue([t1 EXCEPT !.profileConfig = profileConfig],
                            Call("workspaceState.update", "hasPrompted", "true"))
                         EXCEPT !.pc = "savePrompted"]

\* promptForProfileApplication up to its await
promptForProfileApplication(t) ==
    [issue(t, Call("showInformationMessage", "prompt", t.projectType)) EXCEPT !.pc = "prompt"]

PromptChoices == {"Apply", "Not Now", "Never for this workspace", Undefined}

\* Mutant: 'Not Now' clears the applied profile
afterPrompt_NotNowClears(t, id, choice, all, conf) ==
    IF choice = "Apply" THEN applyProfile(t, id, t.profileConfig[1], all, conf)
    ELSE IF choice = "Never for this workspace"
    THEN [issue(t, Call("configuration.update", "autoDetect", "false"))
             EXCEPT !.pc = "saveAutoDetect"]
    ELSE IF choice = "Not Now"
    THEN [issue(t, Call("workspaceState.update", "appliedProfile", Undefined))
             EXCEPT !.pc = "done"]
    ELSE [t EXCEPT !.pc = "done"]

\* Mutant: the type is recorded as applied whatever the answer
afterPrompt_RecordsAnyAnswer(t, id, choice, all, conf) ==
    IF choice = "Apply" THEN applyProfile(t, id, t.profileConfig[1], all, conf)
    ELSE IF choice = "Never for this workspace"
    THEN [issue(t, Call("configuration.update", "autoDetect", "false"))
             EXCEPT !.pc = "saveAutoDetect"]
    ELSE [issue(t, Call("workspaceState.update", "appliedProfile", t.projectType))
             EXCEPT !.pc = "done"]

\* From the answer to the prompt up to the next await
afterPrompt(t, id, choice, all, conf) ==
    IF choice = "Apply" THEN applyProfile(t, id, t.profileConfig[1], all, conf)
    ELSE IF choice = "Never for this workspace"
    THEN [issue(t, Call("configuration.update", "autoDetect", "false"))
             EXCEPT !.pc = "saveAutoDetect"]
    ELSE [t EXCEPT !.pc = "done"]

\* Mutant: the startup pass is scheduled whatever autoDetect is
activate_AlwaysSchedules(conf, folders) ==
    IF Len(folders) > 0 THEN [IdleTask EXCEPT !.pc = "scheduled"] ELSE IdleTask

\* activate(): whether the startup pass is scheduled
activate(conf, folders) ==
    IF configGet(conf, "autoDetect", TRUE) /\ Len(folders) > 0
    THEN [IdleTask EXCEPT !.pc = "scheduled"]
    ELSE IdleTask

------------------------------------------------------------------------------
(* The host *)

\* Memento.update takes effect when it is called
RECURSIVE mementoAfter(_, _)
mementoAfter(state, calls) ==
    IF calls = <<>> THEN state
    ELSE LET c == Head(calls)
             next == IF c.api # "workspaceState.update" THEN state
                     ELSE IF c.a = "hasPrompted"
                     THEN [state EXCEPT !.hasPrompted = Some(c.b = "true")]
                     ELSE [state EXCEPT !.appliedProfile = c.b]
         IN  mementoAfter(next, Tail(calls))

newCalls(t, t2) == SubSeq(t2.calls, Len(t.calls) + 1, Len(t2.calls))

\* One turn of task id, leaving it as t2
Turn(id, t2) ==
    \E next \in {t2} :
        /\ tasks' = [tasks EXCEPT ![id] = next]
        /\ workspaceState' = mementoAfter(workspaceState, newCalls(tasks[id], next))

\* The first turn of a new invocation id, leaving it as t2: the invocations that
\* have returned are forgotten
Start(id, t2) ==
    \E next \in {t2} :
        /\ tasks' = [i \in TaskIds |->
                        IF i = id THEN next
                        ELSE IF tasks[i].pc = "done" THEN IdleTask
                        ELSE tasks[i]]
        /\ workspaceState' = mementoAfter(workspaceState, next.calls)

\* vscode.extensions.all after extId was installed
withInstalled(all, extId) ==
    IF arrayIncludes(arrayMap(LAMBDA ext : toLowerCase(ext.id), all), toLowerCase(extId))
    THEN all
    ELSE Append(all, UserExtension(extId))

------------------------------------------------------------------------------
(* Actions *)

InFlight(id) == tasks[id].pc \notin {"idle", "scheduled", "done"}

\* A command is run, or the timer fires, while at most one invocation is in
\* flight: two invocations overlap, three do not
AtMostOneInFlight == \E id \in TaskIds : \A other \in TaskIds \ {id} : ~InFlight(other)

\* The user runs the switchProfile command
SwitchProfileCommand ==
    /\ session.active
    /\ AtMostOneInFlight
    /\ tasks["switchProfile"].pc \in {"idle", "done"}
    /\ Start("switchProfile", switchProfile(IdleTask, profileFiles))
    /\ UNCHANGED <<extensionsAll, configuration, workspaceFolders, profileFiles, session>>

\* The user picks an item of the quick pick, or dismisses it
PickerAnswered(id) ==
    /\ tasks[id].pc = "picker"
    /\ \E selected \in {Null} \cup {Some(p) : p \in Range(pickerItems(profileFiles))} :
           Turn(id, afterPicker(tasks[id], id, selected, profileFiles,
                                extensionsAll, configuration))
    /\ UNCHANGED <<extensionsAll, configuration, workspaceFolders, profileFiles, session>>

\* The response to the marketplace request ends
MarketplaceEnd(id) ==
    /\ tasks[id].pc = "marketplace"
    /\ \E body \in ResponseBodies(tasks[id].missing) :
           LET t == [tasks[id] EXCEPT !.socketIdle = FALSE]
               threw == \/ ~body.valid
                        \/ /\ body.results # Null
                           /\ \E i \in 1..Len(body.results[1]) :
                                  ~body.results[1][i].hasPublisher
               t1 == [t EXCEPT !.result = onResponseEnd(t.result, t.missing, body),
                               !.data = Some(body)]
               t2 == IF threw THEN issue(t1, Call("console.warn", "parseFailed", ""))
                     ELSE t1
           IN  Turn(id, afterDeprecationCheck(t2, id, extensionsAll, configuration))
    /\ UNCHANGED <<extensionsAll, configuration, workspaceFolders, profileFiles, session>>

\* A chunk of the response arrives ('data'): the socket is active again, which
\* restarts its inactivity timer
MarketplaceData(id) ==
    /\ tasks[id].pc = "marketplace"
    /\ tasks[id].socketIdle
    /\ Turn(id, [tasks[id] EXCEPT !.socketIdle = FALSE])
    /\ UNCHANGED <<extensionsAll, configuration, workspaceFolders, profileFiles, session>>

\* Time passes with no activity on the socket of the request
SocketIdles(id) ==
    /\ tasks[id].pc = "marketplace"
    /\ ~tasks[id].socketIdle
    /\ Turn(id, [tasks[id] EXCEPT !.socketIdle = TRUE])
    /\ UNCHANGED <<extensionsAll, configuration, workspaceFolders, profileFiles, session>>

\* req.setTimeout(5000, ...): the socket has been inactive for 5 seconds
MarketplaceTimeout(id) ==
    /\ tasks[id].pc = "marketplace"
    /\ tasks[id].socketIdle
    /\ Turn(id, afterDeprecationCheck(
                    issue([tasks[id] EXCEPT !.socketIdle = FALSE],
                          Call("console.warn", "marketplaceTimeout", "")),
                    id, extensionsAll, configuration))
    /\ UNCHANGED <<extensionsAll, configuration, workspaceFolders, profileFiles, session>>

\* The marketplace request emits 'error'
MarketplaceError(id) ==
    /\ tasks[id].pc = "marketplace"
    /\ Turn(id, afterDeprecationCheck(
                    issue([tasks[id] EXCEPT !.socketIdle = FALSE],
                          Call("console.warn", "marketplaceFailed", "")),
                    id, extensionsAll, configuration))
    /\ UNCHANGED <<extensionsAll, configuration, workspaceFolders, profileFiles, session>>

\* The install command of toInstall[idx] settles
InstallSettled(id) ==
    /\ tasks[id].pc = "install"
    /\ \E ok \in BOOLEAN :
           LET t == tasks[id]
               extId == t.toInstall[t.idx]
               all == IF ok THEN withInstalled(extensionsAll, extId) ELSE extensionsAll
               t1 == IF ok THEN t ELSE issue(t, Call("console.warn", "installFailed", extId))
           IN  /\ extensionsAll' = all
               /\ Turn(id, installNext(t1, id, t.idx + 1, all, configuration))
    /\ UNCHANGED <<configuration, workspaceFolders, profileFiles, session>>

\* The disable command tried on the probe settles
ProbeSettled(id) ==
    /\ tasks[id].pc = "probe"
    /\ \E ok \in BOOLEAN : Turn(id, afterProbe(tasks[id], id, ok))
    /\ UNCHANGED <<extensionsAll, configuration, workspaceFolders, profileFiles, session>>

\* The disable command of toDisable[idx] settles
DisableSettled(id) ==
    /\ tasks[id].pc = "disable"
    /\ \E ok \in BOOLEAN :
           LET t == tasks[id]
               t1 == IF ok THEN t
                     ELSE issue(t, Call("console.warn", "disableFailed", t.toDisable[t.idx]))
           IN  Turn(id, disableRemaining(t1, id, t.idx + 1))
    /\ UNCHANGED <<extensionsAll, configuration, workspaceFolders, profileFiles, session>>

\* The configuration update of the settings key at idx settles
SettingSettled(id) ==
    /\ tasks[id].pc = "settings"
    /\ \E ok \in BOOLEAN :
           LET t == tasks[id]
               t1 == IF ok THEN t
                     ELSE issue(t, Call("console.warn", "settingFailed",
                                        t.config[1].settings[1][t.idx]))
           IN  Turn(id, updateSetting(t1, id, t.idx + 1))
    /\ UNCHANGED <<extensionsAll, configuration, workspaceFolders, profileFiles, session>>

\* workspaceState.update('appliedProfile', ...) settles
AppliedSaved(id) ==
    /\ tasks[id].pc = "saveApplied"
    /\ Turn(id, promptForReload(tasks[id]))
    /\ UNCHANGED <<extensionsAll, configuration, workspaceFolders, profileFiles, session>>

\* The user answers the reload prompt 'Later' or dismisses it
ReloadDeclined(id) ==
    /\ tasks[id].pc = "reloadPrompt"
    /\ Turn(id, [tasks[id] EXCEPT !.pc = "done"])
    /\ UNCHANGED <<extensionsAll, configuration, workspaceFolders, profileFiles, session>>

\* The user answers the reload prompt 'Reload': the reload command is issued
ReloadAccepted(id) ==
    /\ tasks[id].pc = "reloadPrompt"
    /\ Turn(id, [issue(tasks[id], Call("executeCommand", "workbench.action.reloadWindow", ""))
                    EXCEPT !.pc = "reloading"])
    /\ UNCHANGED <<extensionsAll, configuration, workspaceFolders, profileFiles, session>>

\* The window opens or reloads: the extension host starts afresh, dropping what
\* was in flight, and runs activate()
Activate ==
    /\ session' = [session EXCEPT !.active = TRUE]
    /\ tasks' = [id \in TaskIds |->
                    IF id = "timer" THEN activate(configuration, workspaceFolders)
                    ELSE IdleTask]
    /\ UNCHANGED <<extensionsAll, workspaceState, configuration, workspaceFolders,
                   profileFiles>>

\* The timer set by activate fires: detectAndApplyProfile(false)
TimerFires ==
    /\ tasks["timer"].pc = "scheduled"
    /\ AtMostOneInFlight
    /\ Start("timer", detectAndApplyProfile(IdleTask, FALSE, workspaceFolders, workspaceState,
                                           profileFiles, extensionsAll, configuration))
    /\ UNCHANGED <<extensionsAll, configuration, workspaceFolders, profileFiles, session>>

\* The user runs the detectAndApply command: detectAndApplyProfile(true)
DetectAndApplyCommand ==
    /\ session.active
    /\ tasks["detectAndApply"].pc \in {"idle", "done"}
    /\ AtMostOneInFlight
    /\ Start("detectAndApply",
              detectAndApplyProfile(IdleTask, TRUE, workspaceFolders, workspaceState,
                                   profileFiles, extensionsAll, configuration))
    /\ UNCHANGED <<extensionsAll, configuration, workspaceFolders, profileFiles, session>>

\* The history of prompts after one more: none, once, again
oneMore(autoPrompts) == IF autoPrompts = "none" THEN "once" ELSE "again"

\* workspaceState.update('hasPrompted', true) settles
PromptedSaved(id) ==
    /\ tasks[id].pc = "savePrompted"
    /\ Turn(id, promptForProfileApplication(tasks[id]))
    /\ session' = IF tasks[id].forcePrompt THEN session
                  ELSE [session EXCEPT !.autoPrompts = oneMore(@)]
    /\ UNCHANGED <<extensionsAll, configuration, workspaceFolders, profileFiles>>

\* The user answers the apply prompt, or dismisses it
PromptAnswered(id) ==
    /\ tasks[id].pc = "prompt"
    /\ \E choice \in PromptChoices :
           Turn(id, afterPrompt(tasks[id], id, choice, extensionsAll, configuration))
    /\ UNCHANGED <<extensionsAll, configuration, workspaceFolders, profileFiles, session>>

\* The update of autoDetect in the workspace settings settles
AutoDetectSaved(id) ==
    /\ tasks[id].pc = "saveAutoDetect"
    /\ configuration' = [configuration EXCEPT !.autoDetect = Some(FALSE)]
    /\ Turn(id, [tasks[id] EXCEPT !.pc = "done"])
    /\ UNCHANGED <<extensionsAll, workspaceFolders, profileFiles, session>>

------------------------------------------------------------------------------
(* The extension over the sessions of one workspace *)

\* Nothing set in the settings, nothing stored for the workspace, no window yet
NoConfiguration ==
    [autoDetect |-> Null, disableOtherExtensions |-> Null, excludedFolders |-> Null]

NoWorkspaceState == [appliedProfile |-> Undefined, hasPrompted |-> Null]

NoSession == [active |-> FALSE, autoPrompts |-> "none"]

SessionProfiles ==
    [p \in Range(ProjectTypes) |->
        CASE p = "node" -> ProfileFile(TRUE, Some(ProfileConfig("Node", <<"profile.ext1">>, Null)))
          [] p = "python" -> ProfileFile(TRUE, Some(ProfileConfig("Python", <<"Other.Ext">>,
                                                   Some(<<"editor.tabSize">>))))
          [] OTHER -> NoProfileFile]

\* The workspaces opened: a node project, a python project, a rust project (no
\* profile ships for it), one with its only marker in a subfolder, and none
WorkspaceFolderPool ==
    { << {<<"package.json">>} >>,
      << {<<"requirements.txt">>, <<"setup.py">>, <<"package.json">>} >>,
      << {<<"Cargo.toml">>} >>,
      << {<<"libraries", "package.json">>} >>,
      << >> }

\* A host with a profile extension to install and disabling switched off, or
\* one with every profile extension installed and disabling left on
Init ==
    /\ \/ /\ extensionsAll = <<UserExtension("other.ext")>>
          /\ configuration = [NoConfiguration EXCEPT !.disableOtherExtensions = Some(FALSE)]
       \/ /\ extensionsAll = <<UserExtension("Profile.Ext1"), UserExtension("other.ext"),
                              UserExtension("user.ext")>>
          /\ configuration = NoConfiguration
    /\ workspaceFolders \in WorkspaceFolderPool
    /\ profileFiles = SessionProfiles
    /\ workspaceState = NoWorkspaceState
    /\ tasks = [id \in TaskIds |-> IdleTask]
    /\ session = NoSession

Next ==
    \/ Activate
    \/ TimerFires
    \/ DetectAndApplyCommand
    \/ SwitchProfileCommand
    \/ \E id \in TaskIds :
           \/ PromptedSaved(id)
           \/ PromptAnswered(id)
           \/ AutoDetectSaved(id)
           \/ PickerAnswered(id)
           \/ MarketplaceData(id)
           \/ SocketIdles(id)
           \/ MarketplaceEnd(id)
           \/ MarketplaceTimeout(id)
           \/ MarketplaceError(id)
           \/ InstallSettled(id)
           \/ ProbeSettled(id)
           \/ DisableSettled(id)
           \/ SettingSettled(id)
           \/ AppliedSaved(id)
           \/ ReloadDeclined(id)
           \/ ReloadAccepted(id)

Spec == Init /\ [][Next]_vars

------------------------------------------------------------------------------
(* One apply of one profile, over the profiles and installed extensions a   *)
(* host may have                                                            *)

\* The profile under test is profiles/node.json
ProfilesWith(config) ==
    [p \in Range(ProjectTypes) |->
        IF p = "node" THEN ProfileFile(TRUE, Some(config)) ELSE NoProfileFile]

\* Profiles of up to MaxProfileLen ids over the extensions they name
InitInstallInputs ==
    /\ extensionsAll \in SubSeqsUpTo(SubSeq(ExtensionPool, 1, 2), MaxInstalled)
    /\ \E extensions \in SeqsUpTo(ProfileIdPool, MaxProfileLen) :
           profileFiles = ProfilesWith(ProfileConfig("Test", extensions, Null))
    /\ \E flag \in {Null, Some(FALSE)} :
           configuration = [NoConfiguration EXCEPT !.disableOtherExtensions = flag]

\* One profile over up to MaxInstalled installed extensions of every kind
InitDisableInputs ==
    /\ extensionsAll \in SubSeqsUpTo(ExtensionPool, MaxInstalled)
    /\ \E settings \in SettingsPool :
           profileFiles = ProfilesWith(ProfileConfig("Test", <<"new.ext">>, settings))
    /\ configuration = [NoConfiguration EXCEPT !.disableOtherExtensions = Some(TRUE)]

\* An installed extension whose categories are no array
IllTypedExtension == Extension("illtyped.ext", vscodePath \o "/illtyped.ext", 0, 0, 0, NoArray)

\* A profile with an entry that is no string, or a profile applied with
\* IllTypedExtension installed
InitIllTypedInputs ==
    \/ /\ extensionsAll \in SubSeqsUpTo(SubSeq(ExtensionPool, 1, 2), MaxInstalled)
       /\ \E extensions \in {<<NonString>>, <<"profile.ext1", NonString>>} :
              profileFiles = ProfilesWith(ProfileConfig("Test", extensions, Null))
       /\ configuration = NoConfiguration
    \/ /\ extensionsAll \in {<<IllTypedExtension>>, <<ExtensionPool[2], IllTypedExtension>>}
       /\ \E settings \in SettingsPool :
              profileFiles = ProfilesWith(ProfileConfig("Test", <<"new.ext">>, settings))
       /\ \E flag \in {Null, Some(FALSE)} :
              configuration = [NoConfiguration EXCEPT !.disableOtherExtensions = flag]
    \/ /\ extensionsAll = <<>>
       /\ profileFiles = [p \in Range(ProjectTypes) |->
                              IF p = "node" THEN ProfileFile(TRUE, Null) ELSE NoProfileFile]
       /\ configuration = NoConfiguration

InitApply ==
    /\ InitInstallInputs \/ InitDisableInputs
    /\ workspaceState = NoWorkspaceState
    /\ workspaceFolders = <<>>
    /\ tasks = [id \in TaskIds |-> IdleTask]
    /\ session = [NoSession EXCEPT !.active = TRUE]

NextApply ==
    \/ tasks["switchProfile"].pc = "idle" /\ SwitchProfileCommand
    \/ \E id \in TaskIds : PickerAnswered(id)
    \/ \E id \in TaskIds : MarketplaceData(id)
    \/ \E id \in TaskIds : SocketIdles(id)
    \/ \E id \in TaskIds : MarketplaceEnd(id)
    \/ \E id \in TaskIds : MarketplaceTimeout(id)
    \/ \E id \in TaskIds : MarketplaceError(id)
    \/ \E id \in TaskIds : InstallSettled(id)
    \/ \E id \in TaskIds : ProbeSettled(id)
    \/ \E id \in TaskIds : DisableSettled(id)
    \/ \E id \in TaskIds : SettingSettled(id)
    \/ \E id \in TaskIds : AppliedSaved(id)
    \/ \E id \in TaskIds : ReloadDeclined(id)

SpecApply == InitApply /\ [][NextApply]_vars

\* What the workspace may have stored before: nothing, or a profile applied
\* after a prompt
StoredBefore ==
    {NoWorkspaceState, [appliedProfile |-> "python", hasPrompted |-> Some(TRUE)]}

\* The same, the ill-typed inputs included, in a workspace new or used
InitApplyAnyProfile ==
    /\ InitInstallInputs \/ InitDisableInputs \/ InitIllTypedInputs
    /\ workspaceState \in StoredBefore
    /\ workspaceFolders = <<>>
    /\ tasks = [id \in TaskIds |-> IdleTask]
    /\ session = [NoSession EXCEPT !.active = TRUE]

SpecApplyAnyProfile == InitApplyAnyProfile /\ [][NextApply]_vars

------------------------------------------------------------------------------
(* What a task did, read from its host calls *)

callsOf(t, api) == arrayFilter(LAMBDA c : c.api = api, t.calls)

installIds(t) ==
    arrayMap(LAMBDA c : c.b,
             arrayFilter(LAMBDA c : c.api = "executeCommand" /\ c.a = installCommand,
                         t.calls))

disableCalls(t) ==
    arrayFilter(LAMBDA c : c.api = "executeCommand" /\ c.a \in Range(candidates), t.calls)

warningsOf(t, kinds) ==
    arrayFilter(LAMBDA c : c.api = "showWarningMessage" /\ c.a \in kinds, t.calls)

logged(t, what) == \E i \in 1..Len(t.calls) :
                       t.calls[i].api = "console.warn" /\ t.calls[i].a = what

\* applyProfile was entered and left installMissingExtensions behind
PastInstall(t) ==
    /\ t.config # Null
    /\ t.pc \in {"probe", "disable", "settings", "saveApplied", "reloadPrompt", "done"}

\* applyProfile was entered and left disableNonProfileExtensions behind
PastDisable(t) ==
    /\ t.config # Null
    /\ t.pc \in {"settings", "saveApplied", "reloadPrompt", "done"}

\* applyProfile returned
Returned(t) == t.success # Null

flagged(t, extId) ==
    \/ infoNotFound(t.result, toLowerCase(extId))
    \/ infoDeprecated(t.result, toLowerCase(extId))

------------------------------------------------------------------------------
(* Claims about the profile applier *)

\* C2: no install command is ever issued for an extension id that the
\* marketplace advisory flags notFound or deprecated (with or without a
\* replacement); once the advisory is in, each such missing id has a warning.
C2_NeverInstallsFlagged ==
    \A id \in TaskIds :
        LET t == tasks[id]
            installed == installIds(t)
            warned == warningsOf(t, {"notFound", "deprecatedUseInstead",
                                     "deprecatedSkipped"})
        IN  t.config # Null =>
                /\ \A i \in 1..Len(installed) : ~flagged(t, installed[i])
                /\ t.pc \notin {"picker", "marketplace"} =>
                       \A i \in 1..Len(t.missing) :
                           flagged(t, t.missing[i]) =>
                               \E k \in 1..Len(warned) : warned[k].b = t.missing[i]

\* C2 witness: an apply ended in which one missing id was skipped as not found
\* and another as deprecated, each with its warning, and nothing was installed
C2_Witness ==
    \E id \in TaskIds :
        LET t == tasks[id]
        IN  /\ t.pc = "done" /\ t.success = Some(TRUE)
            /\ \E i, j \in 1..Len(t.missing) :
                   /\ infoNotFound(t.result, toLowerCase(t.missing[i]))
                   /\ infoDeprecated(t.result, toLowerCase(t.missing[j]))
            /\ installIds(t) = <<>>
            /\ Len(warningsOf(t, {"notFound", "deprecatedUseInstead",
                                  "deprecatedSkipped"})) = 2

\* C3: when the marketplace request ends by its 'error' event or by its
\* timeout, every missing id receives an install command, in order, none is
\* skipped with a warning, and applyProfile returns true.
C3_ErrorOrTimeoutInstallsAll ==
    \A id \in TaskIds :
        LET t == tasks[id]
        IN  (logged(t, "marketplaceTimeout") \/ logged(t, "marketplaceFailed")) =>
                /\ t.toInstall = t.missing
                /\ warningsOf(t, {"notFound", "deprecatedUseInstead",
                                  "deprecatedSkipped"}) = <<>>
                /\ t.pc = "install" => installIds(t) = SubSeq(t.missing, 1, t.idx)
                /\ PastInstall(t) => installIds(t) = t.missing
                /\ Returned(t) => t.success = Some(TRUE)

C3_Witness ==
    \E id \in TaskIds :
        LET t == tasks[id]
        IN  /\ t.pc = "done" /\ t.success = Some(TRUE)
            /\ logged(t, "marketplaceTimeout")
            /\ Len(t.missing) >= 2
            /\ installIds(t) = t.missing
            /\ logged(t, "installFailed")

\* A response body that is no JSON, or lacks results[0].extensions, or has an
\* entry without publisher
malformed(body) ==
    \/ ~body.valid
    \/ body.results = Null
    \/ \E i \in 1..Len(body.results[1]) : ~body.results[1][i].hasPublisher

\* C4 (as claimed): after a malformed response (no JSON, JSON without
\* results[0].extensions, or an entry without publisher) every candidate id has
\* deprecated = false and notFound = false, and every missing id is installed.
C4_MalformedGivesUnknownAdvisory ==
    \A id \in TaskIds :
        LET t == tasks[id]
        IN  (t.data # Null /\ malformed(t.data[1])) =>
                /\ \A k \in DOMAIN t.result :
                       ~t.result[k].deprecated /\ ~t.result[k].notFound
                /\ t.toInstall = t.missing

\* C5: if the first disable-command candidate fails on the probe and the
\* second succeeds, every later disable call of the batch uses the second
\* candidate, the first is not tried again, and getCommands is never called.
C5_SecondCandidateLockedIn ==
    \A id \in TaskIds :
        LET t == tasks[id]
            d == disableCalls(t)
        IN  /\ callsOf(t, "getCommands") = <<>>
            /\ (Len(d) >= 2 /\ t.disableCommandId = candidates[2]) =>
                   /\ d[1] = Call("executeCommand", candidates[1], t.toDisable[1])
                   /\ d[2] = Call("executeCommand", candidates[2], t.toDisable[1])
                   /\ \A i \in 3..Len(d) :
                          d[i] = Call("executeCommand", candidates[2], t.toDisable[i - 1])
                   /\ PastDisable(t) => Len(d) = Len(t.toDisable) + 1

\* C5 witness: the probe fell back to the second candidate and two more
\* extensions were disabled with it
C5_Witness ==
    \E id \in TaskIds :
        LET t == tasks[id]
        IN  /\ t.pc = "done"
            /\ t.disableCommandId = candidates[2]
            /\ Len(t.toDisable) = 3
            /\ Len(disableCalls(t)) = 4
            /\ logged(t, "disableFailed")

\* C6: if every disable-command candidate fails on the probe, no disable call
\* is made for any other surplus extension (the only disable calls are the
\* candidates tried on the probe) and exactly one warning is shown.
C6_AllCandidatesFailAbandons ==
    \A id \in TaskIds :
        LET t == tasks[id]
            d == disableCalls(t)
        IN  (PastDisable(t) /\ t.toDisable # <<>> /\ t.disableCommandId = Undefined) =>
                /\ d = [c \in 1..Len(candidates) |->
                           Call("executeCommand", candidates[c], t.toDisable[1])]
                /\ Len(warningsOf(t, {"noDisableCommand"})) = 1

\* C6 witness: disabling was abandoned with three surplus extensions installed
C6_Witness ==
    \E id \in TaskIds :
        LET t == tasks[id]
        IN  /\ t.pc = "done" /\ t.success = Some(TRUE)
            /\ Len(t.toDisable) = 3
            /\ t.disableCommandId = Undefined
            /\ Len(disableCalls(t)) = 2

\* The surplus set as C7 states it
statedSurplus(profileExtensions, all) ==
    {all[i].id : i \in {j \in 1..Len(all) :
        LET ext == all[j]
        IN  /\ startsWith(ext.extensionPath, vscodePath)
            /\ \A k \in 1..Len(profileExtensions) :
                   toLowerCase(profileExtensions[k]) # toLowerCase(ext.id)
            /\ toLowerCase(ext.id) # toLowerCase(ownExtensionId)
            /\ ext.contributes.themes = 0
            /\ ext.contributes.iconThemes = 0
            /\ ext.contributes.productIconThemes = 0
            /\ \A k \in 1..Len(ext.categories) :
                   ext.categories[k] \notin {"Themes", "AI", "Machine Learning",
                                             "Data Science"}}}

\* C7 (as claimed): when disableNonProfileExtensions ran with a working disable
\* command, the extensions that received a disable command are exactly the
\* installed user-scope extensions outside the profile, minus the managing
\* extension's own id, minus theme extensions, minus AI / ML / data-science ones.
C7_DisablesExactlyTheSurplus ==
    \A id \in TaskIds :
        LET t == tasks[id]
            d == disableCalls(t)
        IN  (/\ PastDisable(t)
             /\ configGet(configuration, "disableOtherExtensions", TRUE)
             /\ t.toDisable = <<>> \/ t.disableCommandId # Undefined) =>
                {d[i].b : i \in 1..Len(d)}
                    = statedSurplus(t.config[1].extensions, extensionsAll)

\* Every id of the profile is installed, in some letter case
allInstalled(profileExtensions, all) ==
    \A i \in 1..Len(profileExtensions) :
        \E j \in 1..Len(all) :
            toLowerCase(all[j].id) = toLowerCase(profileExtensions[i])

\* C8: when every extension id of the profile is installed (in any letter
\* case) as applyProfile starts, it makes no marketplace query, issues no
\* install command, and returns true.
C8_AllInstalledNoInstall ==
    [][\A id \in TaskIds :
           LET t == tasks[id]
               t2 == tasks'[id]
           IN  \* the turn in which applyProfile is entered
               /\ (t.config = Null /\ t2.config # Null
                   /\ allInstalled(t2.config[1].extensions, extensionsAll)) =>
                      /\ callsOf(t2, "https.request") = <<>>
                      /\ installIds(t2) = <<>>
                      /\ t2.pc \notin {"marketplace", "install"}
               \* the turn in which applyProfile returns
               /\ (~Returned(t) /\ Returned(t2) /\ callsOf(t2, "https.request") = <<>>) =>
                      /\ installIds(t2) = <<>>
                      /\ t2.success = Some(TRUE)
       ]_vars

\* C8 witness: a profile whose two ids are installed under other letter cases
\* was applied with no query and no install, and applyProfile returned true
C8_Witness ==
    \E id \in TaskIds :
        LET t == tasks[id]
        IN  /\ t.pc = "done" /\ t.success = Some(TRUE)
            /\ t.config[1].extensions = <<"Other.Ext", "profile.ext1">>
            /\ callsOf(t, "https.request") = <<>>
            /\ installIds(t) = <<>>
            /\ Len(extensionsAll) = 2

\* The ids of extensionIds with no installed id equal to them up to letter
\* case, in the order of extensionIds
statedMissing(extensionIds, all) ==
    LET lowerInstalled == {toLowerCase(all[j].id) : j \in 1..Len(all)}
        keep == {i \in 1..Len(extensionIds) :
                    toLowerCase(extensionIds[i]) \notin lowerInstalled}
    IN  [k \in 1..Cardinality(keep) |->
            extensionIds[CHOOSE i \in keep : Cardinality({j \in keep : j < i}) = k - 1]]

\* C9: getMissingExtensions returns the profile ids whose lowercase form is not
\* the lowercase form of an installed id, in profile order.
C9_MissingIsCaseInsensitiveInOrder ==
    [][\A id \in TaskIds :
           LET t == tasks[id]
               t2 == tasks'[id]
           IN  (t.config = Null /\ t2.config # Null) =>
                   t2.missing = statedMissing(t2.config[1].extensions, extensionsAll)
       ]_vars

\* C9 witness: the marketplace is asked about the one id that is missing while
\* the other id of the profile is installed under another letter case
C9_Witness ==
    \E id \in TaskIds :
        LET t == tasks[id]
        IN  /\ t.pc = "marketplace"
            /\ t.config[1].extensions = <<"profile.ext1", "Other.Ext">>
            /\ t.missing = <<"Other.Ext">>
            /\ \E j \in 1..Len(extensionsAll) : extensionsAll[j].id = "Profile.Ext1"

------------------------------------------------------------------------------
(* The detection pass *)

promptsOf(t) ==
    arrayFilter(LAMBDA c : c.api = "showInformationMessage" /\ c.a = "prompt", t.calls)

\* The calls of an apply: the marketplace request, the install and disable
\* commands, the settings updates
applyCallsOf(t) ==
    arrayFilter(LAMBDA c : c.api \in {"https.request", "executeCommand",
                                      "config.update"}, t.calls)

\* The timer pass runs in this step / the detectAndApply command does
TimerPassRuns == tasks["timer"].pc = "scheduled" /\ tasks'["timer"].pc \notin {"idle", "scheduled"}

\* C1: a non-forced pass that finds the stored appliedProfile equal to the type
\* it detects ends at once: it shows no apply prompt, makes no call of an apply
\* (marketplace request, install, disable or settings update), never enters
\* applyProfile, and leaves appliedProfile and hasPrompted as they were.
C1_AppliedTypeSkipsSilently ==
    [][ ( /\ TimerPassRuns
          /\ Len(workspaceFolders) > 0
          /\ workspaceState.appliedProfile =
                 detectProjectType(workspaceFolders[1], configuration) )
        => LET t == tasks'["timer"]
           IN  /\ t.pc = "done"
               /\ ~t.forcePrompt
               /\ promptsOf(t) = <<>>
               /\ applyCallsOf(t) = <<>>
               /\ t.config = Null
               /\ workspaceState' = workspaceState ]_vars

\* The timer pass of this session found the type it detected already applied:
\* nothing else ran since the window opened, and the pass ended without prompt
C1_Witness ==
    /\ tasks["timer"].pc = "done"
    /\ tasks["timer"].projectType = workspaceState.appliedProfile
    /\ tasks["timer"].calls = <<Call("statusBar.show", workspaceState.appliedProfile, "")>>
    /\ tasks["detectAndApply"] = IdleTask
    /\ tasks["switchProfile"] = IdleTask

------------------------------------------------------------------------------
(* The extension left to itself: the timer passes and the profile switches  *)
(* of one workspace, the detectAndApply command never run                   *)

NextAuto ==
    \/ Activate
    \/ TimerFires
    \/ SwitchProfileCommand
    \/ \E id \in TaskIds :
           \/ PromptedSaved(id)
           \/ PromptAnswered(id)
           \/ AutoDetectSaved(id)
           \/ PickerAnswered(id)
           \/ MarketplaceData(id)
           \/ SocketIdles(id)
           \/ MarketplaceEnd(id)
           \/ MarketplaceTimeout(id)
           \/ MarketplaceError(id)
           \/ InstallSettled(id)
           \/ ProbeSettled(id)
           \/ DisableSettled(id)
           \/ SettingSettled(id)
           \/ AppliedSaved(id)
           \/ ReloadDeclined(id)
           \/ ReloadAccepted(id)

SpecAuto == Init /\ [][NextAuto]_vars

\* C11 (as claimed): over the non-forced passes and the profile switches of one
\* workspace, with the configuration as it was, the apply prompt is shown at
\* most once.
C11_PromptsAtMostOnce ==
    (configuration.autoDetect = Null) => session.autoPrompts # "again"

------------------------------------------------------------------------------
(* Overlap *)

\* applyProfile was called by the invocation and has not returned
InApply(t) == t.config # Null /\ t.success = Null /\ t.pc \notin {"idle", "done"}

\* C12 (as claimed): at no time are two apply sequences in progress at once.
C12_NoOverlappingApplies ==
    \A a, b \in TaskIds : (a # b) => ~(InApply(tasks[a]) /\ InApply(tasks[b]))

------------------------------------------------------------------------------
(* The marketplace request under a host that keeps its promises: every      *)
(* command settles, every prompt is answered, an inactive socket times out. *)
(* The network owes nothing: chunks, the end of the response and errors     *)
(* come or do not.                                                          *)

InitNetwork ==
    /\ extensionsAll = <<>>
    /\ \E extensions \in SeqsUpTo(ProfileIdPool, MaxProfileLen) :
           profileFiles = ProfilesWith(ProfileConfig("Test", extensions, Null))
    /\ configuration = [NoConfiguration EXCEPT !.disableOtherExtensions = Some(FALSE)]
    /\ workspaceState = NoWorkspaceState
    /\ workspaceFolders = <<>>
    /\ tasks = [id \in TaskIds |-> IdleTask]
    /\ session = [NoSession EXCEPT !.active = TRUE]

NextNetwork ==
    \/ tasks["switchProfile"].pc = "idle" /\ SwitchProfileCommand
    \/ \E id \in TaskIds : PickerAnswered(id)
    \/ \E id \in TaskIds : MarketplaceData(id)
    \/ \E id \in TaskIds : SocketIdles(id)
    \/ \E id \in TaskIds : MarketplaceEnd(id)
    \/ \E id \in TaskIds : MarketplaceTimeout(id)
    \/ \E id \in TaskIds : MarketplaceError(id)
    \/ \E id \in TaskIds : InstallSettled(id)
    \/ \E id \in TaskIds : AppliedSaved(id)
    \/ \E id \in TaskIds : ReloadDeclined(id)

\* The host settles what it was asked
HostSettles ==
    \E id \in TaskIds :
        \/ PickerAnswered(id)
        \/ InstallSettled(id)
        \/ AppliedSaved(id)
        \/ ReloadDeclined(id)

HostFairness ==
    /\ WF_vars(HostSettles)
    /\ WF_vars(\E id \in TaskIds : SocketIdles(id))
    /\ WF_vars(\E id \in TaskIds : MarketplaceTimeout(id))

SpecNetwork == InitNetwork /\ [][NextNetwork]_vars /\ HostFairness

\* C13 (as claimed): whatever the network does, the promise of
\* checkExtensionsDeprecation resolves: an apply waiting for the marketplace
\* eventually goes on.
C13_RequestAlwaysResolves ==
    \A id \in TaskIds : (tasks[id].pc = "marketplace") ~> (tasks[id].pc # "marketplace")

------------------------------------------------------------------------------
(* Detection over the workspaces and exclusion lists a user may have: the   *)
(* detectAndApply command in an installation that ships no profile          *)

MaxPriority == 2

\* Marker files at the root of the folder and below it
FilePool ==
    { <<"package.json">>, <<"tsconfig.json">>, <<"requirements.txt">>, <<"setup.py">>,
      <<"Cargo.toml">>, <<"go.mod">>,
      <<"libraries", "package.json">>, <<"src", "Cargo.toml">> }

\* The excludedFolders setting: unset, empty, other names, and a name that is
\* also a marker file's
ExcludedFoldersPool ==
    { Null, Some(<<>>), Some(<<"custom_vendor">>), Some(<<"src", "package.json">>) }

InitDetect ==
    /\ \E folder \in SUBSET FilePool : workspaceFolders = <<folder>>
    /\ \E excluded \in ExcludedFoldersPool :
           configuration = [NoConfiguration EXCEPT !.excludedFolders = excluded]
    /\ extensionsAll = <<>>
    /\ profileFiles = [p \in Range(ProjectTypes) |-> NoProfileFile]
    /\ workspaceState = NoWorkspaceState
    /\ tasks = [id \in TaskIds |-> IdleTask]
    /\ session = [NoSession EXCEPT !.active = TRUE]

NextDetect == DetectAndApplyCommand

SpecDetect == InitDetect /\ [][NextDetect]_vars

\* The pass of the detectAndApply command has detected: its result, and what
\* it detected in
Detected == tasks["detectAndApply"].projectType # Undefined
detectedType == tasks["detectAndApply"].projectType
folderScanned == workspaceFolders[1]

\* The marker files of a rule that count: at the root of the folder, their
\* name not excluded
countingFiles(rule, folder, conf) ==
    {i \in 1..Len(rule.files) :
        /\ <<rule.files[i]>> \in folder
        /\ rule.files[i] \notin Range(getExcludedFolders(conf))}

scoreOf(rule, folder, conf) == Cardinality(countingFiles(rule, folder, conf)) * rule.priority

ruleOfType(rules, type) == rules[CHOOSE i \in 1..Len(rules) : rules[i].type = type]

\* The rule sets: detectionRules under every choice of priorities
RuleSets ==
    { [i \in 1..Len(detectionRules) |->
          DetectionRule(detectionRules[i].type, detectionRules[i].files, prio[i])] :
      prio \in [1..Len(detectionRules) -> 0..MaxPriority] }

\* No marker file of any rule lies at the root of the folder
noMarkerAtRoot(folder) ==
    \A i \in 1..Len(detectionRules) :
        \A k \in 1..Len(detectionRules[i].files) :
            <<detectionRules[i].files[k]>> \notin folder

\* C14: in a workspace with no marker file of any rule at its root,
\* detectProjectType returns 'unknown'.
C14_NoMarkerIsUnknown ==
    (Detected /\ noMarkerAtRoot(folderScanned)) => detectedType = "unknown"

\* Detection ran in a workspace whose only marker files lie below the root
C14_Witness ==
    /\ Detected
    /\ folderScanned = {<<"libraries", "package.json">>, <<"src", "Cargo.toml">>}
    /\ detectedType = "unknown"
    /\ tasks["detectAndApply"].pc = "done"

\* C15: the type detectProjectType returns has the highest score (matches times
\* priority) of all rules; a rule with strictly more matches than every other
\* rule wins.
C15_HighestScoreWins ==
    (Detected /\ detectedType # "unknown") =>
        LET best == scoreOf(ruleOfType(detectionRules, detectedType), folderScanned,
                            configuration)
        IN  /\ best > 0
            /\ \A i \in 1..Len(detectionRules) :
                   scoreOf(detectionRules[i], folderScanned, configuration) <= best

\* Node has two marker files, python and rust one each: node is detected
C15_Witness ==
    /\ Detected
    /\ folderScanned = {<<"package.json">>, <<"tsconfig.json">>, <<"requirements.txt">>,
                        <<"Cargo.toml">>}
    /\ configuration.excludedFolders = Null
    /\ detectedType = "node"

\* C16: when several rules share the highest score, the type of the first of
\* them in the order node, python, rust, go is returned.
C16_TieGoesToFirstRule ==
    (Detected /\ detectedType # "unknown") =>
        LET score(i) == scoreOf(detectionRules[i], folderScanned, configuration)
            top == {i \in 1..Len(detectionRules) :
                       \A j \in 1..Len(detectionRules) : score(j) <= score(i)}
            first == CHOOSE i \in top : \A j \in top : i <= j
        IN  /\ detectedType = detectionRules[first].type
            /\ <<"node", "python", "rust", "go">> =
                   [i \in 1..Len(detectionRules) |-> detectionRules[i].type]

\* Python, rust and go tie with one marker file each: python is detected
C16_Witness ==
    /\ Detected
    /\ folderScanned = {<<"requirements.txt">>, <<"Cargo.toml">>, <<"go.mod">>}
    /\ detectedType = "python"

\* C17: under every choice of priorities, when exactly one rule has a match,
\* the body of detectProjectType returns that rule's type.
C17_OnlyMatchingRuleWins ==
    Detected =>
        \A rules \in RuleSets :
            \A i \in 1..Len(rules) :
                ( /\ countingFiles(rules[i], folderScanned, configuration) # {}
                  /\ \A j \in 1..Len(rules) :
                         (j # i) => countingFiles(rules[j], folderScanned, configuration) = {} )
                => detectWithRules(rules, folderScanned, configuration) = rules[i].type

\* Only the rust rule matches, and rust is detected
C17_Witness ==
    /\ Detected
    /\ folderScanned = {<<"Cargo.toml">>, <<"libraries", "package.json">>}
    /\ detectedType = "rust"
    /\ \E rules \in RuleSets :
           /\ ruleOfType(rules, "rust").priority < ruleOfType(rules, "node").priority
           /\ detectWithRules(rules, folderScanned, configuration) = "rust"

\* The marker files of a folder, at any depth, and those of them that lie
\* under a directory whose name is excluded
markerNames ==
    UNION { Range(detectionRules[i].files) : i \in 1..Len(detectionRules) }

markerFilesOf(folder) == {f \in folder : f[Len(f)] \in markerNames}

underExcluded(folder, conf) ==
    {f \in markerFilesOf(folder) :
        \E i \in 1..(Len(f) - 1) : f[i] \in Range(getExcludedFolders(conf))}

\* C18: a marker file under an excluded directory never counts toward any
\* rule's score: detection returns what it returns without those files, and
\* 'unknown' when the only marker files of the workspace lie under excluded
\* directories.
C18_ExcludedMarkersNeverCount ==
    Detected =>
        /\ detectedType =
               detectProjectType(folderScanned \ underExcluded(folderScanned, configuration),
                                 configuration)
        /\ (markerFilesOf(folderScanned) = underExcluded(folderScanned, configuration))
               => detectedType = "unknown"

C18_Witness ==
    /\ Detected
    /\ folderScanned = {<<"libraries", "package.json">>}
    /\ configuration.excludedFolders = Null
    /\ underExcluded(folderScanned, configuration) = folderScanned
    /\ detectedType = "unknown"

\* The names the claim expects to be excluded: the configured list when it is
\* not empty, the default list otherwise
namesInForce(conf) ==
    IF conf.excludedFolders # Null /\ conf.excludedFolders[1] # <<>>
    THEN Range(conf.excludedFolders[1])
    ELSE Range(EXCLUDED_FOLDERS)

underDefaultOnly(folder, conf) ==
    {f \in markerFilesOf(folder) :
        /\ \E i \in 1..(Len(f) - 1) : f[i] \in Range(EXCLUDED_FOLDERS)
        /\ \A i \in 1..Len(f) : f[i] \notin namesInForce(conf)}

------------------------------------------------------------------------------
(* hasPrompted and the apply prompt *)

\* C20: in every detection pass that shows the apply prompt, hasPrompted is
\* stored as true before the prompt is shown, and whatever happens while the
\* prompt is open (an answer, a dismissal, the window reloaded) leaves
\* hasPrompted = true.
C20_PromptedStoredBeforePrompt ==
    /\ [](\A id \in TaskIds :
             promptsOf(tasks[id]) # <<>> => workspaceState.hasPrompted = Some(TRUE))
    /\ [][ (\E id \in TaskIds : tasks[id].pc = "prompt")
              => workspaceState'.hasPrompted = Some(TRUE) ]_vars

\* A timer pass whose prompt was dismissed
C20_Witness ==
    LET t == tasks["timer"]
    IN  /\ t.pc = "done"
        /\ promptsOf(t) # <<>>
        /\ applyCallsOf(t) = <<>>
        /\ workspaceState.appliedProfile = Undefined
        /\ workspaceState.hasPrompted = Some(TRUE)

------------------------------------------------------------------------------
(* appliedProfile and the detection pass *)

DetectTaskIds == {"timer", "detectAndApply"}

\* The host calls task id makes in this step
callsInStep(id) ==
    IF tasks[id].pc \in {"idle", "scheduled", "done"} THEN tasks'[id].calls
    ELSE newCalls(tasks[id], tasks'[id])

storesApplied(c) == c.api = "workspaceState.update" /\ c.a = "appliedProfile"

\* C21: a detection pass stores appliedProfile only after the prompt was
\* answered 'Apply' and applyProfile returned true, and then stores the type it
\* detected; a step in which no invocation stores it, the answers 'Not Now',
\* 'Never for this workspace' and the dismissal among them, leaves
\* appliedProfile as it was.
C21_AppliedStoredOnlyAfterSuccess ==
    [][ /\ \A id \in DetectTaskIds :
              \A k \in 1..Len(callsInStep(id)) :
                  storesApplied(callsInStep(id)[k])
                      => /\ promptsOf(tasks'[id]) # <<>>
                         /\ tasks'[id].config # Null
                         /\ tasks'[id].success = Some(TRUE)
                         /\ callsInStep(id)[k].b = tasks'[id].projectType
                         /\ tasks'[id].projectType =
                                detectProjectType(workspaceFolders[1], configuration)
        /\ (\A id \in TaskIds : \A k \in 1..Len(callsInStep(id)) :
                 ~storesApplied(callsInStep(id)[k]))
               => workspaceState'.appliedProfile = workspaceState.appliedProfile
        /\ \A id \in DetectTaskIds :
               (/\ tasks[id].pc \in {"prompt", "saveAutoDetect"}
                /\ tasks'[id] # tasks[id]
                /\ tasks'[id].config = Null)
                   => workspaceState'.appliedProfile = workspaceState.appliedProfile
      ]_vars

\* A timer pass stored the type it detected, another type having been applied
\* before
C21_Witness ==
    LET t == tasks["timer"]
    IN  /\ t.pc = "saveApplied"
        /\ t.success = Some(TRUE)
        /\ workspaceState.appliedProfile = t.projectType
        /\ session.autoPrompts = "again"

\* C22: a non-forced pass that finds hasPrompted true and no appliedProfile
\* stored shows no apply prompt, makes no call of an apply, never enters
\* applyProfile and leaves appliedProfile and hasPrompted as they were.
C22_DeclinedWorkspaceNotPromptedAgain ==
    [][ ( /\ TimerPassRuns
          /\ workspaceState.hasPrompted = Some(TRUE)
          /\ workspaceState.appliedProfile = Undefined )
        => LET t == tasks'["timer"]
           IN  /\ t.pc = "done"
               /\ ~t.forcePrompt
               /\ promptsOf(t) = <<>>
               /\ applyCallsOf(t) = <<>>
               /\ t.config = Null
               /\ workspaceState' = workspaceState ]_vars

\* A timer pass over a project whose profile ships ended without a prompt in a
\* workspace prompted before
C22_Witness ==
    LET t == tasks["timer"]
    IN  /\ t.pc = "done"
        /\ t.projectType \in {"node", "python"}
        /\ promptsOf(t) = <<>>
        /\ workspaceState.hasPrompted = Some(TRUE)
        /\ workspaceState.appliedProfile = Undefined

\* C23 as stated: in every reachable state a stored appliedProfile implies
\* hasPrompted = true.
C23_AppliedImpliesPrompted ==
    workspaceState.appliedProfile # Undefined => workspaceState.hasPrompted = Some(TRUE)

storesAppliedInStep(id) ==
    \E k \in 1..Len(callsInStep(id)) : storesApplied(callsInStep(id)[k])

\* C23: hasPrompted, once true, stays true, and a detection pass stores
\* appliedProfile only in a workspace recorded as prompted; an appliedProfile
\* stored while hasPrompted is not true was stored by switchProfile, which
\* asks no apply prompt and leaves hasPrompted alone.
C23_AppliedUnpromptedOnlyBySwitch ==
    /\ [][ workspaceState.hasPrompted = Some(TRUE)
              => workspaceState'.hasPrompted = Some(TRUE) ]_vars
    /\ [][ \A id \in DetectTaskIds :
              storesAppliedInStep(id) => workspaceState'.hasPrompted = Some(TRUE) ]_vars
    /\ [][ ( /\ workspaceState'.appliedProfile # workspaceState.appliedProfile
              /\ workspaceState'.hasPrompted # Some(TRUE) )
            => /\ storesAppliedInStep("switchProfile")
               /\ workspaceState'.hasPrompted = workspaceState.hasPrompted
               /\ promptsOf(tasks'["switchProfile"]) = <<>> ]_vars

\* switchProfile stored the type picked in a workspace never prompted
C23_Witness ==
    LET t == tasks["switchProfile"]
    IN  /\ t.pc = "saveApplied"
        /\ workspaceState.appliedProfile = t.projectType
        /\ workspaceState.hasPrompted = Null

------------------------------------------------------------------------------
(* The loops of applyProfile: one failure does not end the batch *)

\* The missing ids the advisory flags neither notFound nor deprecated, in order
installable(t) == arrayFilter(LAMBDA extId : ~flagged(t, extId), t.missing)

\* The advisory is in and the install loop was reached
AdvisoryIn(t) ==
    /\ t.config # Null
    /\ t.pc \notin {"idle", "picker", "savePrompted", "prompt", "marketplace"}

\* C24: the install commands issued are those of the installable ids (missing,
\* flagged neither notFound nor deprecated), one per entry, in profile order
\* and one at a time: while an install is awaited the commands issued are the
\* first idx of them, the last one being the call awaited, and once the loop is
\* left every installable id has its command, whichever installs failed.
C24_EveryInstallableInstalledOnce ==
    \A id \in TaskIds :
        LET t == tasks[id]
        IN  AdvisoryIn(t) =>
                /\ t.pc = "install" =>
                       /\ t.idx \in 1..Len(installable(t))
                       /\ installIds(t) = SubSeq(installable(t), 1, t.idx)
                       /\ t.calls[Len(t.calls)] =
                              Call("executeCommand", installCommand, installable(t)[t.idx])
                /\ PastInstall(t) => installIds(t) = installable(t)

\* Two ids were installable; the install of the first failed and the second
\* was still attempted
C24_Witness ==
    \E id \in TaskIds :
        LET t == tasks[id]
        IN  /\ t.pc = "done" /\ t.success = Some(TRUE)
            /\ Len(installable(t)) = 2
            /\ installIds(t) = installable(t)
            /\ \E i \in 1..Len(t.calls) :
                   /\ t.calls[i] = Call("console.warn", "installFailed", installable(t)[1])
                   /\ \E j \in (i + 1)..Len(t.calls) :
                          t.calls[j] = Call("executeCommand", installCommand, installable(t)[2])

\* C25: once a candidate worked on the probe, the disable calls are the
\* candidates tried on the probe up to that one, then one call with that
\* command for each further extension of toDisable, in order: the probe gets
\* no further call, and a call that fails does not end the loop.
C25_EveryOtherSurplusDisabledOnce ==
    \A id \in TaskIds :
        LET t == tasks[id]
            d == disableCalls(t)
            last == IF t.pc = "disable" THEN t.idx ELSE Len(t.toDisable)
        IN  (/\ t.pc = "disable" \/ PastDisable(t)
             /\ t.toDisable # <<>>
             /\ t.disableCommandId # Undefined) =>
                /\ t.disableCommandId = candidates[t.cand]
                /\ Len(d) = t.cand + last - 1
                /\ \A c \in 1..t.cand :
                       d[c] = Call("executeCommand", candidates[c], t.toDisable[1])
                /\ \A k \in 2..last :
                       d[t.cand + k - 1] =
                           Call("executeCommand", t.disableCommandId, t.toDisable[k])

\* Three extensions were to be disabled; the call for the second failed and
\* the third was still attempted
C25_Witness ==
    \E id \in TaskIds :
        LET t == tasks[id]
        IN  /\ t.pc = "done" /\ t.success = Some(TRUE)
            /\ Len(t.toDisable) = 3
            /\ t.disableCommandId = candidates[1]
            /\ \E i \in 1..Len(t.calls) :
                   /\ t.calls[i] = Call("console.warn", "disableFailed", t.toDisable[2])
                   /\ \E j \in (i + 1)..Len(t.calls) :
                          t.calls[j] = Call("executeCommand", candidates[1], t.toDisable[3])

\* The keys of the profile's settings, in the order of Object.entries
settingsKeys(t) == IF t.config[1].settings = Null THEN <<>> ELSE t.config[1].settings[1]

\* C26: applySettings issues one update per key of the profile's settings, at
\* workspace scope and in order: while an update is awaited the updates issued
\* are those of the first idx keys, and when applyProfile returns every key has
\* had its update, whichever updates failed.
C26_EverySettingUpdatedOnce ==
    \A id \in TaskIds :
        LET t == tasks[id]
            u == callsOf(t, "config.update")
            keys == settingsKeys(t)
        IN  t.config # Null =>
                /\ t.pc \in {"picker", "marketplace", "install", "probe", "disable"} => u = <<>>
                /\ t.pc = "settings" =>
                       /\ t.idx \in 1..Len(keys)
                       /\ u = [k \in 1..t.idx |-> Call("config.update", keys[k], "Workspace")]
                /\ Returned(t) =>
                       u = [k \in 1..Len(keys) |-> Call("config.update", keys[k], "Workspace")]

\* The update of the first of two keys failed and the second was still made
C26_Witness ==
    \E id \in TaskIds :
        LET t == tasks[id]
        IN  /\ t.pc = "done" /\ t.success = Some(TRUE)
            /\ Len(settingsKeys(t)) = 2
            /\ Len(callsOf(t, "config.update")) = 2
            /\ \E i \in 1..Len(t.calls) :
                   /\ t.calls[i] = Call("console.warn", "settingFailed", settingsKeys(t)[1])
                   /\ \E j \in (i + 1)..Len(t.calls) :
                          t.calls[j] = Call("config.update", settingsKeys(t)[2], "Workspace")

------------------------------------------------------------------------------
(* What applyProfile returns *)

appliedNotices(t) ==
    arrayFilter(LAMBDA c : c.api = "showInformationMessage" /\ c.a = "applied", t.calls)

errorNotices(t) == callsOf(t, "showErrorMessage")

\* C27: applyProfile returns true whatever installs, disable calls and
\* settings updates failed, disabling abandoned included, with one success
\* notification and no error notification; it returns false only when an
\* error escaped the handlers of the steps (getMissingExtensions threw on an
\* entry that is no string), and then with exactly one error notification, no
\* success notification and no step made.
C27_FalseOnlyWhenAnErrorEscapes ==
    \A id \in TaskIds :
        LET t == tasks[id]
        IN  Returned(t) =>
                /\ t.success = Some(~getMissingExtensionsThrows(t.config[1].extensions))
                /\ t.success = Some(TRUE) =>
                       /\ Len(appliedNotices(t)) = 1
                       /\ errorNotices(t) = <<>>
                /\ t.success = Some(FALSE) =>
                       /\ appliedNotices(t) = <<>>
                       /\ Len(errorNotices(t)) = 1
                       /\ applyCallsOf(t) = <<>>

\* applyProfile returned true although the install failed, no disable command
\* worked and both settings updates failed
C27_Witness ==
    \E id \in TaskIds :
        LET t == tasks[id]
        IN  /\ t.success = Some(TRUE)
            /\ Len(installIds(t)) = 1 /\ logged(t, "installFailed")
            /\ t.toDisable # <<>> /\ t.disableCommandId = Undefined
            /\ Len(warningsOf(t, {"noDisableCommand"})) = 1
            /\ Len(callsOf(t, "config.update")) = 2
            /\ Len(arrayFilter(LAMBDA c : c.api = "console.warn" /\ c.a = "settingFailed",
                                t.calls)) = 2

\* applyProfile returned false
C27_ReturnedFalse ==
    \E id \in TaskIds :
        /\ tasks[id].success = Some(FALSE)
        /\ tasks[id].pc = "done"

------------------------------------------------------------------------------
(* The order of the steps of applyProfile *)

\* The step of applyProfile a host call belongs to, 0 for the others
stepOf(c) ==
    CASE c.api = "https.request" -> 1
      [] c.api = "executeCommand" /\ c.a = installCommand -> 2
      [] c.api = "executeCommand" /\ c.a \in Range(candidates) -> 3
      [] c.api = "config.update" -> 4
      [] OTHER -> 0

disablingGaveUp(t) ==
    \/ Len(warningsOf(t, {"noDisableCommand"})) > 0
    \/ logged(t, "disableNonProfileExtensionsFailed")

\* C28: within one applyProfile the marketplace query comes before every
\* install command, the install commands before every disable command, the
\* disable commands before every settings update; the settings are still
\* updated when disabling was abandoned or threw; disable commands are issued
\* only with the disableOtherExtensions flag enabled.
C28_StepsInOrder ==
    \A id \in TaskIds :
        LET t == tasks[id]
        IN  /\ \A i, j \in 1..Len(t.calls) :
                   (i < j /\ stepOf(t.calls[i]) > 0 /\ stepOf(t.calls[j]) > 0)
                       => stepOf(t.calls[i]) <= stepOf(t.calls[j])
            /\ Len(callsOf(t, "https.request")) <= 1
            /\ installIds(t) # <<>> => Len(callsOf(t, "https.request")) = 1
            /\ disableCalls(t) # <<>> => configGet(configuration, "disableOtherExtensions", TRUE)
            /\ (Returned(t) /\ disablingGaveUp(t)) =>
                   /\ t.success = Some(TRUE)
                   /\ Len(callsOf(t, "config.update")) = Len(settingsKeys(t))

\* The filter of disableNonProfileExtensions threw after an install, and the
\* two settings were still updated
C28_Witness ==
    \E id \in TaskIds :
        LET t == tasks[id]
        IN  /\ t.pc = "done" /\ t.success = Some(TRUE)
            /\ logged(t, "disableNonProfileExtensionsFailed")
            /\ Len(installIds(t)) = 1
            /\ disableCalls(t) = <<>>
            /\ Len(callsOf(t, "config.update")) = 2

\* All four steps were made in one apply
C28_AllSteps ==
    \E id \in TaskIds :
        LET t == tasks[id]
        IN  /\ t.pc = "done"
            /\ \A step \in 1..4 : \E i \in 1..Len(t.calls) : stepOf(t.calls[i]) = step

------------------------------------------------------------------------------
(* 'Never for this workspace' *)

\* C29: the answer 'Never for this workspace' issues the update of autoDetect
\* to false and nothing else: applyProfile is not entered and appliedProfile is
\* unchanged, then and when the update settles, which leaves autoDetect =
\* false; with autoDetect = false no step schedules the startup pass.
C29_NeverTurnsAutoDetectOff ==
    [][ /\ \A id \in DetectTaskIds :
              LET t == tasks[id]
                  t2 == tasks'[id]
              IN  /\ (t.pc = "prompt" /\ t2.pc = "saveAutoDetect") =>
                         /\ callsInStep(id) =
                                <<Call("configuration.update", "autoDetect", "false")>>
                         /\ t2.config = Null
                         /\ workspaceState' = workspaceState
                  /\ (t.pc = "saveAutoDetect" /\ t2.pc = "done") =>
                         /\ configuration'.autoDetect = Some(FALSE)
                         /\ callsInStep(id) = <<>>
                         /\ t2.config = Null
                         /\ workspaceState' = workspaceState
        /\ (configuration.autoDetect = Some(FALSE) /\ tasks'["timer"].pc = "scheduled")
               => tasks'["timer"] = tasks["timer"]
        /\ configuration.autoDetect = Some(FALSE) => configuration'.autoDetect = Some(FALSE)
      ]_vars

\* The window was opened again after the answer 'Never for this workspace' to
\* the timer pass: no pass is scheduled
C29_Witness ==
    /\ session.active
    /\ session.autoPrompts = "once"
    /\ configuration.autoDetect = Some(FALSE)
    /\ Len(workspaceFolders) > 0
    /\ workspaceState = [appliedProfile |-> Undefined, hasPrompted |-> Some(TRUE)]
    /\ \A id \in TaskIds : tasks[id] = IdleTask

------------------------------------------------------------------------------
(* The advisory read from a well-formed response *)

\* The entries of the response whose publisher.extensionName id is key, up to
\* letter case
entriesFor(body, key) ==
    {i \in 1..Len(body.results[1]) : toLowerCase(body.results[1][i].id) = key}

\* C30: after a well-formed response, for every id asked about: notFound is
\* true iff no entry returned has its lowercase id; deprecated is true iff an
\* entry returned for it carries the deprecation property, the replacement
\* then being the value of the alternate-extension property (undefined when
\* absent); otherwise both are false; never both true.
C30_AdvisoryFromWellFormedResponse ==
    \A id \in TaskIds :
        LET t == tasks[id]
        IN  (t.data # Null /\ ~malformed(t.data[1])) =>
                \A k \in 1..Len(t.missing) :
                    LET key == toLowerCase(t.missing[k])
                        entries == entriesFor(t.data[1], key)
                        info == t.result[key]
                    IN  /\ mapHas(t.result, key)
                        /\ info.notFound <=> entries = {}
                        /\ info.deprecated <=>
                               \E i \in entries : t.data[1].results[1][i].deprecation
                        /\ info.deprecated =>
                               \E i \in entries :
                                   /\ t.data[1].results[1][i].deprecation
                                   /\ info.replacement = t.data[1].results[1][i].alternate
                        /\ ~info.deprecated => info.replacement = Undefined
                        /\ ~(info.deprecated /\ info.notFound)

\* A well-formed response returned one of the two ids asked about, deprecated
\* with a replacement, under another letter case than the lowercase key
C30_Witness ==
    \E id \in TaskIds :
        LET t == tasks[id]
        IN  /\ t.data # Null /\ ~malformed(t.data[1])
            /\ t.missing = <<"profile.ext1", "Other.Ext">>
            /\ t.result["profile.ext1"] = MarketplaceExtensionInfo(FALSE, TRUE, Undefined)
            /\ t.result["other.ext"] = MarketplaceExtensionInfo(TRUE, FALSE, "new.other.ext")
            /\ Len(t.data[1].results[1]) = 1
            /\ t.data[1].results[1][1].id = "Other.Ext"

------------------------------------------------------------------------------
(* Passes that find nothing to offer *)

\* detectAndApplyProfile is called in this step as invocation id
PassRuns(id) ==
    IF id = "timer" THEN TimerPassRuns
    ELSE /\ tasks[id].pc \in {"idle", "done"}
         /\ tasks'[id].pc # "idle"
         /\ tasks'[id].forcePrompt
         /\ \A other \in TaskIds \ {id} :
                tasks'[other] = IF tasks[other].pc = "done" THEN IdleTask ELSE tasks[other]

\* No profiles/<type>.json that parses
noProfileFor(type) ==
    type # "unknown" /\ (~profileFiles[type].exists \/ profileFiles[type].content = Null)

\* C31: a pass, forced or not, that detects 'unknown' or a type for which no
\* profile configuration exists ends at once: it shows no apply prompt, makes
\* no call of an apply, never enters applyProfile and leaves hasPrompted and
\* appliedProfile as they were.
C31_NothingToOfferNothingDone ==
    [][ \A id \in DetectTaskIds :
            ( /\ PassRuns(id)
              /\ Len(workspaceFolders) > 0
              /\ LET type == detectProjectType(workspaceFolders[1], configuration)
                 IN  type = "unknown" \/ noProfileFor(type) )
            => LET t == tasks'[id]
               IN  /\ t.pc = "done"
                   /\ promptsOf(t) = <<>>
                   /\ applyCallsOf(t) = <<>>
                   /\ t.config = Null
                   /\ workspaceState' = workspaceState ]_vars

\* A forced pass over a rust project, for which no profile ships, ended with
\* the warning and no prompt
C31_Witness ==
    LET t == tasks["detectAndApply"]
    IN  /\ t.pc = "done"
        /\ t.forcePrompt
        /\ t.projectType = "rust"
        /\ noProfileFor("rust")
        /\ promptsOf(t) = <<>>
        /\ \E i \in 1..Len(t.calls) :
               t.calls[i] = Call("showWarningMessage", "noProfileAvailable", "")

\* A timer pass over a workspace of unknown type ended with no prompt
C31_UnknownPass ==
    LET t == tasks["timer"]
    IN  t.pc = "done" /\ t.projectType = "unknown" /\ promptsOf(t) = <<>>

------------------------------------------------------------------------------
(* The stored state only grows *)

\* C32: hasPrompted, once true, never becomes false or absent again;
\* appliedProfile, once it holds a project type, is never absent again: it is
\* only ever replaced by one of the project types, never by 'unknown'.
C32_SessionStateMonotone ==
    /\ [](workspaceState.appliedProfile \in Range(ProjectTypes) \cup {Undefined})
    /\ [][ workspaceState.hasPrompted = Some(TRUE)
              => workspaceState'.hasPrompted = Some(TRUE) ]_vars
    /\ [][ workspaceState.appliedProfile # Undefined
              => workspaceState'.appliedProfile \in Range(ProjectTypes) ]_vars

\* The node profile applied by the timer pass was replaced by the python
\* profile through switchProfile
C32_Witness ==
    /\ tasks["timer"].pc = "reloadPrompt"
    /\ tasks["timer"].projectType = "node"
    /\ tasks["switchProfile"].pc = "saveApplied"
    /\ tasks["switchProfile"].projectType = "python"
    /\ workspaceState = [appliedProfile |-> "python", hasPrompted |-> Some(TRUE)]

------------------------------------------------------------------------------
(* switchProfile and the stored state *)

\* C33: switchProfile shows no apply prompt and never changes hasPrompted; it
\* stores appliedProfile only when applyProfile returned true, and then the
\* type picked; a step of it that stores nothing, as all its steps are when
\* the picker is cancelled, the profile configuration is missing or the apply
\* fails, leaves the stored state as it was.
C33_SwitchStoresOnlyAfterSuccess ==
    [][ LET t2 == tasks'["switchProfile"]
            new == callsInStep("switchProfile")
        IN  (\A id \in DetectTaskIds : tasks'[id] = tasks[id]) =>
                /\ promptsOf(t2) = <<>>
                /\ workspaceState'.hasPrompted = workspaceState.hasPrompted
                /\ \A k \in 1..Len(new) :
                       /\ ~(new[k].api = "workspaceState.update" /\ new[k].a = "hasPrompted")
                       /\ storesApplied(new[k]) =>
                              /\ t2.success = Some(TRUE)
                              /\ t2.projectType \in Range(pickerItems(profileFiles))
                              /\ new[k].b = t2.projectType
                              /\ workspaceState'.appliedProfile = t2.projectType
                /\ ~storesAppliedInStep("switchProfile") => workspaceState' = workspaceState
                /\ t2.success = Some(FALSE) => ~storesAppliedInStep("switchProfile")
      ]_vars

\* applyProfile returned false to switchProfile in a workspace with a profile
\* applied: the stored state is as before
C33_Witness ==
    LET t == tasks["switchProfile"]
    IN  /\ t.pc = "done"
        /\ t.success = Some(FALSE)
        /\ t.projectType = "node"
        /\ workspaceState = [appliedProfile |-> "python", hasPrompted |-> Some(TRUE)]

\* The profile picked does not parse: an error is shown and nothing stored
C33_ProfileNotFound ==
    LET t == tasks["switchProfile"]
    IN  /\ t.pc = "done"
        /\ t.calls[Len(t.calls)] = Call("showErrorMessage", "profileNotFound", "node")
        /\ workspaceState = [appliedProfile |-> "python", hasPrompted |-> Some(TRUE)]

\* The picker was dismissed
C33_PickerCancelled ==
    LET t == tasks["switchProfile"]
    IN  /\ t.pc = "done"
        /\ t.calls = <<Call("showQuickPick", "", "")>>
        /\ workspaceState = [appliedProfile |-> "python", hasPrompted |-> Some(TRUE)]

------------------------------------------------------------------------------
(* The three outcomes of a missing id *)

countOf(arr, e) == Cardinality({i \in 1..Len(arr) : arr[i] = e})

notFoundWarned(t) == arrayMap(LAMBDA c : c.b, warningsOf(t, {"notFound"}))

deprecatedWarned(t) ==
    arrayMap(LAMBDA c : c.b, warningsOf(t, {"deprecatedUseInstead", "deprecatedSkipped"}))

\* C34: once installMissingExtensions is left, every entry of the missing ids
\* has exactly one outcome, an install command, a 'not found' warning or a
\* 'deprecated' warning: the three counts add up to the number of missing ids,
\* and an id flagged notFound has the 'not found' warning, never the
\* 'deprecated' one.
C34_MissingIdsPartitioned ==
    \A id \in TaskIds :
        LET t == tasks[id]
            inst == installIds(t)
            nf == notFoundWarned(t)
            dep == deprecatedWarned(t)
        IN  PastInstall(t) =>
                /\ Len(inst) + Len(nf) + Len(dep) = Len(t.missing)
                /\ \A i \in 1..Len(t.missing) :
                       LET e == t.missing[i]
                           n == countOf(t.missing, e)
                       IN  /\ <<countOf(inst, e), countOf(nf, e), countOf(dep, e)>>
                                  \in {<<n, 0, 0>>, <<0, n, 0>>, <<0, 0, n>>}
                           /\ infoNotFound(t.result, toLowerCase(e)) =>
                                  countOf(nf, e) = n
                           /\ infoDeprecated(t.result, toLowerCase(e)) =>
                                  countOf(dep, e) = n

\* Of two missing ids one was installed and the other reported as not found
C34_Witness ==
    LET t == tasks["switchProfile"]
    IN  /\ t.pc = "done"
        /\ Len(t.missing) = 2
        /\ Len(installIds(t)) = 1
        /\ Len(notFoundWarned(t)) = 1
        /\ infoNotFound(t.result, toLowerCase(notFoundWarned(t)[1]))

\* Of two missing ids one was reported as deprecated and the other as not found
C34_BothSkipped ==
    LET t == tasks["switchProfile"]
    IN  /\ t.pc = "done"
        /\ Len(t.missing) = 2
        /\ Len(deprecatedWarned(t)) = 1
        /\ Len(notFoundWarned(t)) = 1

------------------------------------------------------------------------------
(* Callbacks of the marketplace request that fire after its promise resolved *)
(*                                                                          *)
(* checkExtensionsDeprecation registers three callbacks, each of which ends *)
(* in resolve(result): the 'end' handler of the response, the timeout of    *)
(* the request and its 'error' handler.  The first to fire resolves the     *)
(* promise; nothing unregisters the others, so each may still fire once,    *)
(* and resolve is then without effect.  req.destroy() in the timeout makes  *)
(* the request emit 'error' afterwards.                                     *)

\* The promise of checkExtensionsDeprecation was created and has resolved
Resolved(t) ==
    /\ t.config # Null
    /\ Len(callsOf(t, "https.request")) > 0
    /\ t.pc \notin {"idle", "picker", "marketplace"}

endFired(t) == t.data # Null
timeoutFired(t) == logged(t, "marketplaceTimeout")
errorFired(t) == logged(t, "marketplaceFailed")

\* The response ends after the promise resolved: the handler writes to the
\* same Map that installMissingExtensions was given
LateEnd(id) ==
    /\ Resolved(tasks[id])
    /\ ~endFired(tasks[id])
    /\ \E body \in ResponseBodies(tasks[id].missing) :
           LET t == tasks[id]
               threw == \/ ~body.valid
                        \/ /\ body.results # Null
                           /\ \E i \in 1..Len(body.results[1]) :
                                  ~body.results[1][i].hasPublisher
               t1 == [t EXCEPT !.result = onResponseEnd(t.result, t.missing, body),
                               !.data = Some(body)]
           IN  Turn(id, IF threw THEN issue(t1, Call("console.warn", "parseFailed", ""))
                        ELSE t1)
    /\ UNCHANGED <<extensionsAll, configuration, workspaceFolders, profileFiles, session>>

\* The timeout of the request fires after the promise resolved
LateTimeout(id) ==
    /\ Resolved(tasks[id])
    /\ ~timeoutFired(tasks[id])
    /\ Turn(id, issue(tasks[id], Call("console.warn", "marketplaceTimeout", "")))
    /\ UNCHANGED <<extensionsAll, configuration, workspaceFolders, profileFiles, session>>

\* The request emits 'error' after the promise resolved
LateError(id) ==
    /\ Resolved(tasks[id])
    /\ ~errorFired(tasks[id])
    /\ Turn(id, issue(tasks[id], Call("console.warn", "marketplaceFailed", "")))
    /\ UNCHANGED <<extensionsAll, configuration, workspaceFolders, profileFiles, session>>

NextLateCallbacks ==
    \/ tasks["switchProfile"].pc = "idle" /\ SwitchProfileCommand
    \/ \E id \in TaskIds : PickerAnswered(id)
    \/ \E id \in TaskIds : MarketplaceData(id)
    \/ \E id \in TaskIds : SocketIdles(id)
    \/ \E id \in TaskIds : MarketplaceEnd(id)
    \/ \E id \in TaskIds : MarketplaceTimeout(id)
    \/ \E id \in TaskIds : MarketplaceError(id)
    \/ \E id \in TaskIds : LateEnd(id)
    \/ \E id \in TaskIds : LateTimeout(id)
    \/ \E id \in TaskIds : LateError(id)
    \/ \E id \in TaskIds : InstallSettled(id)
    \/ \E id \in TaskIds : AppliedSaved(id)
    \/ \E id \in TaskIds : ReloadDeclined(id)

SpecLateCallbacks == InitNetwork /\ [][NextLateCallbacks]_vars

isPrefix(a, b) == Len(a) <= Len(b) /\ SubSeq(b, 1, Len(a)) = a

skipWarningsOf(t) ==
    warningsOf(t, {"notFound", "deprecatedUseInstead", "deprecatedSkipped"})

\* A callback of the request fires in this step, the promise being resolved
LateCallback(id) ==
    /\ Resolved(tasks[id])
    /\ \/ endFired(tasks'[id]) /\ ~endFired(tasks[id])
       \/ timeoutFired(tasks'[id]) /\ ~timeoutFired(tasks[id])
       \/ errorFired(tasks'[id]) /\ ~errorFired(tasks[id])

\* C35: the ids to install are those the advisory does not flag at the step in
\* which the promise of checkExtensionsDeprecation resolves, and they and the
\* warnings of the skipped ids stay as they are from then on; a callback
\* that fires later issues no request and no install command and leaves the
\* install loop where it is; the commands issued are, in the end, exactly the
\* ids fixed at the resolution.
C35_InstallsFixedAtFirstResolution ==
    /\ [][ \A id \in TaskIds :
              LET t == tasks[id]
                  t2 == tasks'[id]
              IN  /\ (t.pc = "marketplace" /\ t2.pc # "marketplace") =>
                         /\ t2.toInstall = toInstallOf(t2.missing, t2.result)
                         /\ skipWarningsOf(t2) = skipWarnings(t2.missing, t2.result)
                  /\ Resolved(t) =>
                         /\ t2.toInstall = t.toInstall
                         /\ skipWarningsOf(t2) = skipWarningsOf(t)
                         /\ callsOf(t2, "https.request") = callsOf(t, "https.request")
                         /\ isPrefix(installIds(t), installIds(t2))
                  /\ LateCallback(id) =>
                         /\ t2.pc = t.pc
                         /\ t2.idx = t.idx
                         /\ installIds(t2) = installIds(t)
                         /\ applyCallsOf(t2) = applyCallsOf(t)
          ]_vars
    /\ [](\A id \in TaskIds :
              LET t == tasks[id]
              IN  Resolved(t) =>
                      /\ isPrefix(installIds(t), t.toInstall)
                      /\ PastInstall(t) => installIds(t) = t.toInstall)

\* The request timed out and both ids were installed; the response ended
\* afterwards and marked one of them in the Map as not found
C35_Witness ==
    LET t == tasks["switchProfile"]
    IN  /\ t.pc = "done"
        /\ timeoutFired(t) /\ errorFired(t) /\ endFired(t)
        /\ Len(installIds(t)) = 2
        /\ \E i \in 1..2 : infoNotFound(t.result, toLowerCase(installIds(t)[i]))

\* The response ended while the first install was awaited
C35_LateEndDuringInstall ==
    LET t == tasks["switchProfile"]
    IN  /\ t.pc = "install" /\ t.idx = 1
        /\ timeoutFired(t) /\ endFired(t)
        /\ infoDeprecated(t.result, toLowerCase(t.toInstall[2]))

====
